---- MODULE Spec2Model ----
(***************************************************************************)
(* State-machine model of the khori classroom backend: the storage layer   *)
(* (src/storage.ts), the HTTP handlers and the WebSocket room machinery    *)
(* (src/routes.ts, src/websocket/...).  Every asynchronous handler is cut  *)
(* into one action per stretch of code between two awaits, so that the     *)
(* interleavings the single event loop allows are the interleavings of     *)
(* the model.                                                              *)
(***************************************************************************)
EXTENDS Integers, Sequences, FiniteSets, TLC

NULL == "null"

\* ------------------------------------------------------------- bounds ----
MaxSaves == 2        \* board-data saves started during a run
MaxPayload == 1      \* distinct non-empty drawing payloads
MaxSockets == 2      \* WebSocket connections opened during a run
MaxTime == 1         \* last value of the millisecond clock
MaxResponses == 3    \* quiz:response submissions started during a run
MaxRespondents == 6  \* respondents of the stored quiz sessions a leaderboard is built from
MaxAttendCalls == 4  \* attendance requests started during a run
MaxRequests == 2     \* board, user and recording requests started during a run
MaxScoreExcess == 3  \* how far a score of the model output lies outside 0..100
RandomScale == 64    \* Math.random() yields n / RandomScale for n in 0..RandomScale-1

\* ---------------------------------------------- constants of the code ----
LeaderboardSize == 5 \* slice(0, 5) of both leaderboards
RoomCodeLength == 9  \* characters of a room code
MaxAttempts == 10    \* regenerations of a colliding room code
DefaultScore == 50   \* the score when the model output gives none

\* ---------------------------------------------------------- universes ----
RoomCodes == {"R1"}
BoardIds == {"b1"}
OtherBoard == "b2"                   \* another teacher's board, without a room here
OtherTeacher == "teacher2"
OtherRoom == "R2"                    \* the room of the other teacher's board
AllRoomCodes == RoomCodes \cup {OtherRoom}
SessionIds == {"q1", "q2", "q3"}     \* quiz sessions: q1, q2 on b1, q3 on the other board
NewSessionIds == {"q4"}              \* ids of the sessions quiz:post creates
QuizIds == {"quiz1"}
Answers == {"a", "b"}
Students == {"s1", "s2"}             \* session user ids of attendance requests
PerfIds == {"s1", "s2", "g1"}        \* ids met in attendance, responses and board data
RespSlots == 1..MaxResponses
Respondents == 1..MaxRespondents
AttSlots == 1..MaxAttendCalls
Teacher == "teacher"
AuthIds == {Teacher, NULL}           \* session user id of a connection (NULL: guest)
HttpSlots == 1..MaxRequests
Admin == "admin"                     \* the user created at start-up, role admin
Gone == "gone"                       \* a session user id whose users row was deleted
SessionUsers == {Admin, Teacher, OtherTeacher, "s1", Gone}   \* req.session.userId
Pids == {"p1", "p2"}                 \* client-chosen participant ids
SocketIds == 1..MaxSockets
Payloads == {<<>>} \cup {<<i>> : i \in 1..MaxPayload}
SaveSlots == 1..MaxSaves
Key(roomCode, userId) == <<roomCode, userId>>
Keys == AllRoomCodes \X Pids

\* an optional value: None (null / undefined) or Some(v)
None == <<>>
Some(v) == <<v>>

MapSet(m, k, v) == [x \in DOMAIN m \cup {k} |-> IF x = k THEN v ELSE m[x]]
MapDel(m, k) == [x \in DOMAIN m \ {k} |-> m[x]]
EmptyMap == [x \in {} |-> NULL]
Min(a, b) == IF a <= b THEN a ELSE b

\* Array.prototype.slice(0, n)
Slice(seq, n) == SubSeq(seq, 1, Min(n, Len(seq)))

RECURSIVE SetToSeq(_)
\* the elements of a finite set, listed in some order
SetToSeq(S) == IF S = {} THEN <<>>
               ELSE LET x == CHOOSE y \in S : TRUE IN <<x>> \o SetToSeq(S \ {x})

VARIABLES
    now,                  \* the wall clock read by Date.now() / new Date()
    boards,               \* storage: boards table, id -> row
    boardData,            \* storage: board_data table, a set of rows
    bdNextId,             \* storage: next generated board_data id
    pendingBoardUpdates,  \* routes.ts: Map key -> PendingBoardUpdate (timer armed)
    saveTasks,            \* the saves of the run (HTTP POST or flushBoardUpdate), by slot
    bdLastSave,           \* history: payload of the save that completed last, per pair
    lastUpdate,           \* history: sender and target of the boardUpdate handled last
    burst,                \* history: the messages and flushes of each key's current burst
    sockets,              \* per-connection closure state of wss.on("connection")
    rooms,                \* routes.ts: rooms registry, roomCode -> participant map
    roomFocusState,       \* routes.ts: roomFocusState, roomCode -> RoomFocusState
    pendingDisconnects,   \* routes.ts: pendingDisconnects, key -> timer handle (0: none)
    disconnectTimers,     \* grace timers scheduled by setTimeout and not yet fired/cleared
    expiryTasks,          \* grace-timer callbacks suspended on storage
    joinTasks,            \* join handlers suspended on storage, per socket
    boardCreatorCache,    \* routes.ts: boardCreatorCache / boardLecturerCache
    sent,                 \* the messages the last step sent, in order
    focusEntry,           \* history: isPublic of the focus target when it became the target
    quizSessions,         \* storage: quiz_sessions table, id -> row
    quizResponses,        \* storage: quiz_responses table, rows in the order a SELECT lists them
    qrNextId,             \* storage: next generated quiz_responses id
    respTasks,            \* the quiz:response handlers of the run, by slot
    qrLast,               \* history: answer of the submission that completed last, per pair
    quizTimers,           \* the timers of quiz:post scheduled by setTimeout and not yet fired
    postTasks,            \* quiz:post handlers suspended on storage, per socket
    attendance,           \* storage: student_attendance table, a set of rows
    attNextId,            \* storage: next generated student_attendance id
    attTasks,             \* the attendance requests of the run, by slot
    attLast,              \* history: row of the last completed join and whether it was left since
    attResp,              \* history: the response of the join that completed last
    perfResult,           \* the last response of GET /api/teacher-performance/:teacherId
    users,                \* storage: users table, id -> row
    httpTasks,            \* the HTTP requests of the run suspended on storage, by slot
    httpResp,             \* the HTTP response the last step sent, if any
    recordings,           \* storage: lecture_recordings table, a set of rows
    recNextId,            \* storage: next generated lecture_recordings id
    transcripts,          \* storage: lecture_transcripts table, a set of rows
    aiParticipant         \* storage: the ai_chat_participants row the score is stored in

bdHist == <<lastUpdate, burst>>
bdVars == <<boardData, bdNextId, pendingBoardUpdates, saveTasks, bdLastSave, bdHist>>
roomVars == <<sockets, rooms, roomFocusState, pendingDisconnects, disconnectTimers,
              expiryTasks, joinTasks, boardCreatorCache>>
quizVars == <<quizSessions, quizResponses, qrNextId, respTasks, qrLast, quizTimers, postTasks>>
attVars == <<attendance, attNextId, attTasks, attLast, attResp>>
httpVars == <<users, httpTasks, httpResp, recordings, transcripts, recNextId, aiParticipant>>
appVars == <<quizVars, attVars, perfResult, httpVars>>
vars == <<now, boards, bdVars, roomVars, sent, focusEntry, appVars>>

\* ------------------------------------------------------------ storage ----
\* DatabaseStorage.getBoard
getBoard(id) == IF id \in DOMAIN boards THEN id ELSE NULL

\* DatabaseStorage.getBoardByRoomCode
getBoardByRoomCode(roomCode) ==
    IF \E b \in DOMAIN boards : boards[b].roomCode = roomCode
    THEN CHOOSE b \in DOMAIN boards : boards[b].roomCode = roomCode
    ELSE NULL

\* the rows the query of DatabaseStorage.getBoardData selects
BoardDataRows(boardId, userId) ==
    {r \in boardData : r.boardId = boardId /\ r.userId = userId}

\* ------------------------------------------------- real-time room core ----
\* ws.readyState === WebSocket.OPEN
IsOpen(s) == sockets[s].state = "open"

\* the participants of a map a room.forEach(... readyState === OPEN ...) sends to
OpenPids(room) == {p \in DOMAIN room : IsOpen(room[p].ws)}

Msg(type, to, userId, flag) == [type |-> type, to |-> to, userId |-> userId, flag |-> flag]

\* the participant map a suspended handler holds: the registered one, or the
\* map as it was when rooms.delete() dropped it from the registry
TaskRoom(task) == IF task.detached = None THEN rooms[task.roomCode] ELSE task.detached[1]

\* a suspended handler's reference after rooms.delete(roomCode) dropped `room`
Detach(task, roomCode, room) ==
    IF task.roomCode = roomCode /\ task.detached = None /\ task.pc # "idle"
    THEN [task EXCEPT !.detached = Some(room)] ELSE task

\* variant of the callback's tail that leaves the empty map registered
RoomsDelete_Keep(roomCode, room, tasks) ==
    /\ rooms' = MapSet(rooms, roomCode, room)
    /\ expiryTasks' = tasks
    /\ UNCHANGED joinTasks

\* rooms.delete(roomCode), `room` being the map registered under it
RoomsDelete(roomCode, room, tasks) ==
    /\ rooms' = MapDel(rooms, roomCode)
    /\ joinTasks' = [s \in SocketIds |-> Detach(joinTasks[s], roomCode, room)]
    /\ expiryTasks' = {Detach(e, roomCode, room) : e \in tasks}

\* the focus state the handler gets or creates
FocusStateOf(roomCode) ==
    IF roomCode \in DOMAIN roomFocusState THEN roomFocusState[roomCode]
    ELSE [focusedUserId |-> NULL, originalVisibility |-> None]

IdleJoin == [pc |-> "idle", roomCode |-> NULL, pid |-> NULL, userIsPublic |-> FALSE,
             isCreatorAdmin |-> FALSE, detached |-> None]

\* wss.on("connection"): a new connection with its session-derived user id
Connect(s, auth) ==
    /\ sockets[s].state = "new"
    /\ \A s2 \in SocketIds : s2 < s => sockets[s2].state # "new"
    /\ sockets' = [sockets EXCEPT ![s].state = "open", ![s].auth = auth]
    /\ sent' = <<>>
    /\ UNCHANGED <<now, boards, bdVars, rooms, roomFocusState, pendingDisconnects,
                   disconnectTimers, expiryTasks, joinTasks, boardCreatorCache>>
    /\ UNCHANGED focusEntry
    /\ UNCHANGED appVars

\* case "join", from the admin-id lookup to the second await: the record is
\* stored, the roster and the focus state are sent
JoinEnter(s, roomCode, pid, userIsPublic, creatorId, lecturerId) ==
    LET room == IF roomCode \in DOMAIN rooms THEN rooms[roomCode] ELSE EmptyMap
        auth == sockets[s].auth
        isCreatorAdmin == /\ auth # NULL
                          /\ \/ (creatorId # NULL /\ auth = creatorId)
                             \/ (lecturerId # NULL /\ auth = lecturerId)
        isReconnecting == pid \in DOMAIN room
        participant ==
            [joinedAt |-> IF isReconnecting THEN room[pid].joinedAt ELSE now,
             isAdmin |-> isCreatorAdmin,
             isPublic |-> IF isReconnecting THEN room[pid].isPublic ELSE userIsPublic,
             ws |-> s,
             originalVisibility |-> IF isReconnecting THEN room[pid].originalVisibility
                                    ELSE None,
             viewingUserId |-> IF isReconnecting THEN room[pid].viewingUserId ELSE NULL]
        room2 == MapSet(room, pid, participant)
        roster == <<Msg("participants", {pid}, NULL, None)>>
        restore == IF isReconnecting /\ participant.viewingUserId # NULL
                   THEN <<Msg("restoreViewingState", {pid}, participant.viewingUserId, None)>>
                   ELSE <<>>
        hasFocus == /\ roomCode \in DOMAIN roomFocusState
                    /\ roomFocusState[roomCode].focusedUserId # NULL
    IN  /\ rooms' = MapSet(rooms, roomCode, room2)
        /\ IF hasFocus
           THEN /\ sent' = roster \o restore \o
                       <<Msg("focus", {pid}, roomFocusState[roomCode].focusedUserId, None)>>
                /\ UNCHANGED <<roomFocusState, focusEntry>>
           ELSE IF isCreatorAdmin
           THEN /\ roomFocusState' = MapSet(roomFocusState, roomCode,
                       [focusedUserId |-> pid,
                        originalVisibility |-> Some(participant.isPublic)])
                /\ focusEntry' = [focusEntry EXCEPT ![roomCode] = Some(participant.isPublic)]
                /\ sent' = roster \o restore \o
                       <<Msg("focus", OpenPids(room2), pid, None)>>
           ELSE /\ sent' = roster \o restore
                /\ UNCHANGED <<roomFocusState, focusEntry>>
        /\ joinTasks' = [joinTasks EXCEPT ![s] =
               [pc |-> "boardState", roomCode |-> roomCode, pid |-> pid,
                userIsPublic |-> userIsPublic, isCreatorAdmin |-> isCreatorAdmin,
                detached |-> None]]

\* variant of the head of case "join" that forgets the timer handle without
\* clearTimeout
CancelPendingDisconnect_NoClear(roomCode, pid) ==
    /\ pendingDisconnects' = [pendingDisconnects EXCEPT ![Key(roomCode, pid)] = 0]
    /\ UNCHANGED disconnectTimers

\* ConnectionService.cancelPendingDisconnect / the head of case "join"
CancelPendingDisconnect(roomCode, pid) ==
    LET h == pendingDisconnects[Key(roomCode, pid)]
    IN  /\ disconnectTimers' = {t \in disconnectTimers : t.id # h}
        /\ pendingDisconnects' = [pendingDisconnects EXCEPT ![Key(roomCode, pid)] = 0]

\* case "join", up to its first await (none when the admin ids are cached)
Join(s, roomCode, pid, userIsPublic) ==
    /\ IsOpen(s)
    /\ joinTasks[s].pc = "idle"
    /\ sockets' = [sockets EXCEPT ![s].currentRoomCode = roomCode,
                                  ![s].participantId = pid]
    /\ CancelPendingDisconnect(roomCode, pid)
    /\ IF boardCreatorCache[roomCode].creatorId # NULL
       THEN /\ JoinEnter(s, roomCode, pid, userIsPublic,
                         boardCreatorCache[roomCode].creatorId,
                         boardCreatorCache[roomCode].lecturerId)
            /\ UNCHANGED boardCreatorCache
       ELSE /\ joinTasks' = [joinTasks EXCEPT ![s] =
                   [pc |-> "adminIds", roomCode |-> roomCode, pid |-> pid,
                    userIsPublic |-> userIsPublic, isCreatorAdmin |-> FALSE,
                    detached |-> None]]
            /\ sent' = <<>>
            /\ UNCHANGED <<rooms, roomFocusState, boardCreatorCache, focusEntry>>
    /\ UNCHANGED <<now, boards, bdVars, expiryTasks>>
    /\ UNCHANGED appVars

\* case "join" resumed with the board row of RoomService.getBoardAdminIds
JoinAdminIds(s) ==
    LET t == joinTasks[s]
        b == getBoardByRoomCode(t.roomCode)
        creatorId == IF b # NULL THEN boards[b].creatorId ELSE NULL
        lecturerId == IF b # NULL THEN boards[b].lecturerId ELSE NULL
    IN  /\ t.pc = "adminIds"
        /\ boardCreatorCache' = IF b # NULL
              THEN [boardCreatorCache EXCEPT ![t.roomCode] =
                       [creatorId |-> creatorId,
                        lecturerId |-> IF lecturerId # NULL THEN lecturerId ELSE @.lecturerId]]
              ELSE boardCreatorCache
        /\ JoinEnter(s, t.roomCode, t.pid, t.userIsPublic, creatorId,
                     IF lecturerId # NULL THEN lecturerId
                     ELSE boardCreatorCache[t.roomCode].lecturerId)
        /\ UNCHANGED <<now, boards, bdVars, sockets, pendingDisconnects,
                       disconnectTimers, expiryTasks>>
        /\ UNCHANGED appVars

\* case "join" resumed with the board row read for the session state
JoinBoardState(s) ==
    LET t == joinTasks[s]
        b == getBoardByRoomCode(t.roomCode)
        ended == b # NULL /\ boards[b].isEnded
        room == TaskRoom(t)
    IN  /\ t.pc = "boardState"
        /\ IF t.isCreatorAdmin /\ ended
           THEN /\ joinTasks' = [joinTasks EXCEPT ![s].pc = "resume"]
                /\ sent' = <<>>
           ELSE /\ joinTasks' = [joinTasks EXCEPT ![s] = IdleJoin]
                /\ sent' = (IF ended THEN <<Msg("sessionState", {t.pid}, NULL, Some(TRUE))>>
                            ELSE <<>>)
                           \o <<Msg("userJoined", OpenPids(room) \ {t.pid}, t.pid, None)>>
        /\ UNCHANGED <<now, boards, bdVars, sockets, rooms, roomFocusState,
                       pendingDisconnects, disconnectTimers, expiryTasks,
                       boardCreatorCache>>
        /\ UNCHANGED focusEntry
        /\ UNCHANGED appVars

\* case "join" resumed after updateBoard(isEnded: false) of a returning admin
JoinResume(s) ==
    LET t == joinTasks[s]
        b == getBoardByRoomCode(t.roomCode)
        room == TaskRoom(t)
    IN  /\ t.pc = "resume"
        /\ boards' = [boards EXCEPT ![b].isEnded = FALSE]
        /\ joinTasks' = [joinTasks EXCEPT ![s] = IdleJoin]
        /\ sent' = <<Msg("sessionState", OpenPids(room), NULL, Some(FALSE)),
                     Msg("userJoined", OpenPids(room) \ {t.pid}, t.pid, None)>>
        /\ UNCHANGED <<now, bdVars, sockets, rooms, roomFocusState, pendingDisconnects,
                       disconnectTimers, expiryTasks, boardCreatorCache>>
        /\ UNCHANGED focusEntry
        /\ UNCHANGED appVars

\* ------------------------------------------ debounced board persistence ----
FreeSlot == CHOOSE i \in SaveSlots :
                saveTasks[i].pc = "free" /\ \A j \in SaveSlots : j < i => saveTasks[j].pc # "free"
FreeSave == [pc |-> "free", kind |-> NULL, ref |-> NULL, userId |-> NULL,
             lines |-> <<>>, existing |-> 0]
DoneSave == [FreeSave EXCEPT !.pc = "done"]

\* history of a key's burst: n messages so far (from 2 on, 2), w flushes started
\* since it began, split when a closing connection flushed the key meanwhile,
\* over once the timer fired after the pause
NoBurst == [n |-> 0, w |-> 0, split |-> FALSE, over |-> FALSE]
BurstMessage(b) ==
    IF b.over THEN [NoBurst EXCEPT !.n = 1] ELSE [b EXCEPT !.n = Min(2, b.n + 1)]
BurstClosed(b) == [b EXCEPT !.w = Min(2, b.w + 1), !.split = TRUE]
BurstPaused(b) == [b EXCEPT !.w = Min(2, b.w + 1), !.over = TRUE]

\* variant of flushBoardUpdate that leaves the entry in pendingBoardUpdates
flushBoardUpdate_KeepPending(key) ==
    /\ pendingBoardUpdates[key] # None
    /\ \E i \in SaveSlots : saveTasks[i].pc = "free"
    /\ UNCHANGED pendingBoardUpdates
    /\ saveTasks' = [saveTasks EXCEPT ![FreeSlot] =
           [pc |-> "getBoard", kind |-> "flush", ref |-> key[1], userId |-> key[2],
            lines |-> pendingBoardUpdates[key][1], existing |-> 0]]

\* flushBoardUpdate, up to its first await: the pending entry is taken
flushBoardUpdate(key) ==
    /\ pendingBoardUpdates[key] # None
    /\ \E i \in SaveSlots : saveTasks[i].pc = "free"
    /\ pendingBoardUpdates' = [pendingBoardUpdates EXCEPT ![key] = None]
    /\ saveTasks' = [saveTasks EXCEPT ![FreeSlot] =
           [pc |-> "getBoard", kind |-> "flush", ref |-> key[1], userId |-> key[2],
            lines |-> pendingBoardUpdates[key][1], existing |-> 0]]

\* ----------------------------------------------- disconnect grace period ----
\* ws.on("close"): flush the connection's pending board write, arm the grace timer
Close(s) ==
    LET roomCode == sockets[s].currentRoomCode
        pid == sockets[s].participantId
        joined == roomCode # NULL /\ pid # NULL
        room == rooms[roomCode]
        wasAdmin == pid \in DOMAIN room /\ room[pid].isAdmin
    IN  /\ IsOpen(s)
        /\ sockets' = [sockets EXCEPT ![s].state = "closed"]
        /\ IF joined /\ pendingBoardUpdates[Key(roomCode, pid)] # None
           THEN /\ flushBoardUpdate(Key(roomCode, pid))
                /\ burst' = [burst EXCEPT ![Key(roomCode, pid)] = BurstClosed(@)]
           ELSE UNCHANGED <<pendingBoardUpdates, saveTasks, burst>>
        /\ IF joined /\ roomCode \in DOMAIN rooms
           THEN /\ disconnectTimers' = disconnectTimers \cup
                       {[id |-> s, roomCode |-> roomCode, pid |-> pid, wasAdmin |-> wasAdmin]}
                /\ pendingDisconnects' =
                       [pendingDisconnects EXCEPT ![Key(roomCode, pid)] = s]
           ELSE UNCHANGED <<disconnectTimers, pendingDisconnects>>
        /\ sent' = <<>>
        /\ UNCHANGED <<now, boards, boardData, bdNextId, bdLastSave, lastUpdate, rooms,
                       roomFocusState, expiryTasks, joinTasks, boardCreatorCache>>
        /\ UNCHANGED focusEntry
        /\ UNCHANGED appVars

\* the disconnectTimer callback, up to its first await (none unless an admin
\* leaves a non-empty room)
TimerFire(t) ==
    LET key == Key(t.roomCode, t.pid)
        room == rooms[t.roomCode]
        room2 == MapDel(room, t.pid)
    IN  /\ t \in disconnectTimers
        /\ disconnectTimers' = disconnectTimers \ {t}
        /\ pendingDisconnects' = [pendingDisconnects EXCEPT ![key] = 0]
        /\ IF /\ t.roomCode \in DOMAIN rooms
              /\ t.pid \in DOMAIN room
              /\ ~IsOpen(room[t.pid].ws)
           THEN /\ focusEntry' = IF FocusStateOf(t.roomCode).focusedUserId = t.pid
                                  THEN [focusEntry EXCEPT ![t.roomCode] = None]
                                  ELSE focusEntry
                /\ IF t.wasAdmin /\ DOMAIN room2 # {}
                   THEN /\ rooms' = [rooms EXCEPT ![t.roomCode] = room2]
                        /\ expiryTasks' = expiryTasks \cup
                               {[id |-> t.id, roomCode |-> t.roomCode, pid |-> t.pid,
                                 pc |-> "getBoard", detached |-> None]}
                        /\ sent' = <<>>
                        /\ UNCHANGED joinTasks
                   ELSE /\ sent' = <<Msg("userLeft", OpenPids(room2), t.pid, None)>>
                        /\ IF DOMAIN room2 = {}
                           THEN RoomsDelete(t.roomCode, room2, expiryTasks)
                           ELSE /\ rooms' = [rooms EXCEPT ![t.roomCode] = room2]
                                /\ UNCHANGED <<joinTasks, expiryTasks>>
           ELSE /\ sent' = <<>>
                /\ UNCHANGED <<rooms, joinTasks, expiryTasks, focusEntry>>
        /\ UNCHANGED <<now, boards, bdVars, sockets, roomFocusState, boardCreatorCache>>
        /\ UNCHANGED appVars

\* the disconnectTimer callback resumed with the board row
ExpiryGetBoard(e) ==
    /\ e \in expiryTasks
    /\ e.pc = "getBoard"
    /\ getBoardByRoomCode(e.roomCode) # NULL
    /\ expiryTasks' = (expiryTasks \ {e}) \cup {[e EXCEPT !.pc = "updateBoard"]}
    /\ sent' = <<>>
    /\ UNCHANGED <<now, boards, bdVars, sockets, rooms, roomFocusState,
                   pendingDisconnects, disconnectTimers, joinTasks, boardCreatorCache>>
    /\ UNCHANGED focusEntry
    /\ UNCHANGED appVars

\* the disconnectTimer callback resumed after updateBoard(isEnded: true):
\* sessionState and userLeft are broadcast, an empty room is dropped
ExpiryFinish(e) ==
    LET room == TaskRoom(e)
        b == getBoardByRoomCode(e.roomCode)
        rest == expiryTasks \ {e}
    IN  /\ e \in expiryTasks
        /\ e.pc = "updateBoard"
        /\ boards' = [boards EXCEPT ![b].isEnded = TRUE]
        /\ sent' = <<Msg("sessionState", OpenPids(room), NULL, Some(TRUE)),
                     Msg("userLeft", OpenPids(room), e.pid, None)>>
        /\ IF DOMAIN room = {} /\ e.roomCode \in DOMAIN rooms
           THEN RoomsDelete(e.roomCode, rooms[e.roomCode], rest)
           ELSE /\ expiryTasks' = rest
                /\ UNCHANGED <<rooms, joinTasks>>
        /\ UNCHANGED <<now, bdVars, sockets, roomFocusState, pendingDisconnects,
                       disconnectTimers, boardCreatorCache, focusEntry>>
        /\ UNCHANGED appVars

\* ------------------------------------------------- presence and focus ----
\* the sender's participant record, as the handlers look it up
InRoom(s) ==
    /\ IsOpen(s)
    /\ sockets[s].currentRoomCode # NULL
    /\ sockets[s].currentRoomCode \in DOMAIN rooms
SenderRoom(s) == rooms[sockets[s].currentRoomCode]
SenderIsAdmin(s) ==
    /\ InRoom(s)
    /\ sockets[s].participantId \in DOMAIN SenderRoom(s)
    /\ SenderRoom(s)[sockets[s].participantId].isAdmin

\* case "updatePresence": isPublic = data.isPublic ?? participant.isPublic
UpdatePresence(s, isPublic) ==
    LET roomCode == sockets[s].currentRoomCode
        pid == sockets[s].participantId
        room == SenderRoom(s)
        v == IF isPublic = None THEN room[pid].isPublic ELSE isPublic[1]
    IN  /\ InRoom(s)
        /\ pid \in DOMAIN room
        /\ rooms' = [rooms EXCEPT ![roomCode][pid].isPublic = v]
        /\ sent' = <<Msg("presenceUpdate", OpenPids(room), pid, Some(v))>>
        /\ focusEntry' = IF FocusStateOf(roomCode).focusedUserId = pid
                          THEN [focusEntry EXCEPT ![roomCode] = None]
                          ELSE focusEntry
        /\ UNCHANGED <<now, boards, bdVars, sockets, roomFocusState, pendingDisconnects,
                       disconnectTimers, expiryTasks, joinTasks, boardCreatorCache>>
        /\ UNCHANGED appVars

\* case "setViewingState"
SetViewingState(s, viewingUserId) ==
    LET roomCode == sockets[s].currentRoomCode
        pid == sockets[s].participantId
    IN  /\ InRoom(s)
        /\ pid \in DOMAIN SenderRoom(s)
        /\ rooms' = [rooms EXCEPT ![roomCode][pid].viewingUserId = viewingUserId]
        /\ sent' = <<>>
        /\ UNCHANGED <<now, boards, bdVars, sockets, roomFocusState, pendingDisconnects,
                       disconnectTimers, expiryTasks, joinTasks, boardCreatorCache>>
        /\ UNCHANGED focusEntry
        /\ UNCHANGED appVars

\* variant of case "focus" that switches the target without restoring the old one
RestorePrev_Skip(room, fs, targetUserId) == [room |-> room, msgs |-> <<>>]

\* case "focus", first half: the previous target gets its saved visibility back
RestorePrev(room, fs, targetUserId) ==
    IF /\ fs.focusedUserId # NULL
       /\ fs.focusedUserId # targetUserId
       /\ fs.originalVisibility # None
       /\ fs.focusedUserId \in DOMAIN room
    THEN [room |-> [room EXCEPT ![fs.focusedUserId].isPublic = fs.originalVisibility[1]],
          msgs |-> <<Msg("presenceUpdate", OpenPids(room), fs.focusedUserId,
                         fs.originalVisibility)>>]
    ELSE [room |-> room, msgs |-> <<>>]

\* case "focus" with a target: restore the previous target, then save the new
\* target's visibility and force it public
FocusTarget(room, fs, targetUserId) ==
    LET prev == RestorePrev(room, fs, targetUserId)
        hasTarget == targetUserId \in DOMAIN room
    IN  [room |-> IF hasTarget THEN [prev.room EXCEPT ![targetUserId].isPublic = TRUE]
                  ELSE prev.room,
         fs |-> IF hasTarget
                THEN [focusedUserId |-> targetUserId,
                      originalVisibility |-> Some(prev.room[targetUserId].isPublic)]
                ELSE fs,
         msgs |-> prev.msgs \o (IF hasTarget
                                THEN <<Msg("presenceUpdate", OpenPids(room), targetUserId,
                                           Some(TRUE))>>
                                ELSE <<>>)]

\* case "focus" without a target: restore the focused participant, clear the state
FocusRelease(room, fs) ==
    LET restorePrev == /\ fs.focusedUserId # NULL
                       /\ fs.originalVisibility # None
                       /\ fs.focusedUserId \in DOMAIN room
    IN  [room |-> IF restorePrev
                  THEN [room EXCEPT ![fs.focusedUserId].isPublic = fs.originalVisibility[1]]
                  ELSE room,
         fs |-> [focusedUserId |-> NULL, originalVisibility |-> None],
         msgs |-> IF restorePrev
                  THEN <<Msg("presenceUpdate", OpenPids(room), fs.focusedUserId,
                             fs.originalVisibility)>>
                  ELSE <<>>]

\* case "focus" (admin only); targetUserId NULL releases the focus
Focus(s, targetUserId) ==
    LET roomCode == sockets[s].currentRoomCode
        room == SenderRoom(s)
        fs == FocusStateOf(roomCode)
        r == IF targetUserId # NULL THEN FocusTarget(room, fs, targetUserId)
             ELSE FocusRelease(room, fs)
    IN  /\ SenderIsAdmin(s)
        /\ rooms' = [rooms EXCEPT ![roomCode] = r.room]
        /\ roomFocusState' = MapSet(roomFocusState, roomCode, r.fs)
        /\ sent' = r.msgs \o <<Msg("focus", OpenPids(room), targetUserId, None)>>
        /\ focusEntry' = [focusEntry EXCEPT ![roomCode] =
               IF targetUserId = NULL \/ targetUserId \notin DOMAIN room THEN None
               ELSE IF targetUserId = fs.focusedUserId THEN @
               ELSE Some(room[targetUserId].isPublic)]
        /\ UNCHANGED <<now, boards, bdVars, sockets, pendingDisconnects,
                       disconnectTimers, expiryTasks, joinTasks, boardCreatorCache>>
        /\ UNCHANGED appVars

\* the timer of scheduleBoardUpdate fires
FlushTimer(key) ==
    /\ flushBoardUpdate(key)
    /\ burst' = [burst EXCEPT ![key] = BurstPaused(@)]
    /\ sent' = <<>>
    /\ UNCHANGED <<now, boards, boardData, bdNextId, bdLastSave, lastUpdate, roomVars,
                   focusEntry>>
    /\ UNCHANGED appVars

\* shutdown (SIGTERM / SIGINT): server.close, wss.close, process.exit(0). The
\* process ends with its memory: connections, registries, timers and the
\* handlers suspended on storage; nothing reads pendingBoardUpdates
Shutdown ==
    /\ sockets' = [s \in SocketIds |->
                      [sockets[s] EXCEPT !.state = IF @ = "open" THEN "closed" ELSE @]]
    /\ pendingBoardUpdates' = [k \in Keys |-> None]
    /\ saveTasks' = [i \in SaveSlots |->
                        IF saveTasks[i].pc \in {"free", "done"} THEN saveTasks[i]
                        ELSE DoneSave]
    /\ rooms' = EmptyMap
    /\ roomFocusState' = EmptyMap
    /\ pendingDisconnects' = [k \in Keys |-> 0]
    /\ disconnectTimers' = {}
    /\ expiryTasks' = {}
    /\ joinTasks' = [s \in SocketIds |-> IdleJoin]
    /\ sent' = <<>>
    /\ UNCHANGED <<now, boards, boardData, bdNextId, bdLastSave, bdHist, boardCreatorCache,
                   focusEntry>>
    /\ UNCHANGED appVars

\* POST /api/board-data, up to its first await
PostBoardData(boardId, userId, lines) ==
    /\ \E i \in SaveSlots : saveTasks[i].pc = "free"
    /\ saveTasks' = [saveTasks EXCEPT ![FreeSlot] =
           [pc |-> "getBoard", kind |-> "http", ref |-> boardId, userId |-> userId,
            lines |-> lines, existing |-> 0]]
    /\ sent' = <<>>
    /\ UNCHANGED <<now, boards, boardData, bdNextId, pendingBoardUpdates, bdLastSave, bdHist,
                   roomVars, focusEntry>>
    /\ UNCHANGED appVars

\* a save resumed with its board row: storage.getBoard (POST) or
\* storage.getBoardByRoomCode (flushBoardUpdate); no board ends the save
SaveGetBoard(i) ==
    LET t == saveTasks[i]
        b == IF t.kind = "http" THEN getBoard(t.ref) ELSE getBoardByRoomCode(t.ref)
    IN  /\ t.pc = "getBoard"
        /\ saveTasks' = [saveTasks EXCEPT ![i] =
               IF b = NULL THEN DoneSave ELSE [t EXCEPT !.pc = "read", !.ref = b]]
        /\ sent' = <<>>
        /\ UNCHANGED <<now, boards, boardData, bdNextId, pendingBoardUpdates, bdLastSave, bdHist,
                       roomVars, focusEntry>>
        /\ UNCHANGED appVars

\* DatabaseStorage.upsertBoardData resumed with the row of getBoardData: the
\* first row of the SELECT, whichever the database lists first
SaveRead(i) ==
    LET t == saveTasks[i]
        rows == BoardDataRows(t.ref, t.userId)
    IN  /\ t.pc = "read"
        /\ \E x \in (IF rows = {} THEN {0} ELSE {r.id : r \in rows}) :
              saveTasks' = [saveTasks EXCEPT ![i].pc = "write", ![i].existing = x]
        /\ sent' = <<>>
        /\ UNCHANGED <<now, boards, boardData, bdNextId, pendingBoardUpdates, bdLastSave, bdHist,
                       roomVars, focusEntry>>
        /\ UNCHANGED appVars

\* DatabaseStorage.upsertBoardData resumed after its UPDATE (a row was read)
\* or its INSERT (none was)
SaveWrite(i) ==
    LET t == saveTasks[i]
    IN  /\ t.pc = "write"
        /\ IF t.existing # 0
           THEN /\ boardData' = {IF r.id = t.existing THEN [r EXCEPT !.linesData = t.lines]
                                 ELSE r : r \in boardData}
                /\ UNCHANGED bdNextId
           ELSE /\ boardData' = boardData \cup
                       {[id |-> bdNextId, boardId |-> t.ref, userId |-> t.userId,
                         linesData |-> t.lines]}
                /\ bdNextId' = bdNextId + 1
        /\ bdLastSave' = [bdLastSave EXCEPT ![<<t.ref, t.userId>>] = Some(t.lines)]
        /\ saveTasks' = [saveTasks EXCEPT ![i] = DoneSave]
        /\ sent' = <<>>
        /\ UNCHANGED <<now, boards, pendingBoardUpdates, bdHist, roomVars, focusEntry>>
        /\ UNCHANGED appVars

\* scheduleBoardUpdate: the pending entry of the key is replaced, its timer re-armed
scheduleBoardUpdate(roomCode, userId, lines) ==
    pendingBoardUpdates' = [pendingBoardUpdates EXCEPT ![Key(roomCode, userId)] = Some(lines)]

\* case "boardUpdate": data.userId names the board, data.lines its content
BoardUpdate(s, userId, lines) ==
    LET roomCode == sockets[s].currentRoomCode
        room == SenderRoom(s)
    IN  /\ InRoom(s)
        /\ scheduleBoardUpdate(roomCode, userId, lines)
        /\ lastUpdate' = Some([from |-> sockets[s].participantId,
                                isAdmin |-> SenderIsAdmin(s), userId |-> userId])
        /\ burst' = [burst EXCEPT ![Key(roomCode, userId)] = BurstMessage(@)]
        /\ sent' = <<Msg("boardUpdate", OpenPids(room) \ {sockets[s].participantId},
                         userId, Some(lines))>>
        /\ UNCHANGED <<now, boards, boardData, bdNextId, saveTasks, bdLastSave, roomVars,
                       focusEntry>>
        /\ UNCHANGED appVars

\* the millisecond clock advances
Tick ==
    /\ now < MaxTime
    /\ now' = now + 1
    /\ UNCHANGED <<boards, bdVars, roomVars, sent, focusEntry>>
    /\ UNCHANGED appVars

\* -------------------------------------------------------------- quizzes ----
\* the quizzes table (never written by the handlers modelled here)
Quizzes == [q \in QuizIds |-> [correctAnswer |-> "a"]]

\* the participantName a client sends along with its id
NameOf(participantId) == <<"name", participantId>>

\* DatabaseStorage.getQuiz
getQuiz(id) == IF id \in DOMAIN Quizzes THEN id ELSE NULL

\* DatabaseStorage.getQuizSession
getQuizSession(id) == IF id \in DOMAIN quizSessions THEN id ELSE NULL

\* the rows the query of DatabaseStorage.getQuizResponse selects (as positions)
QuizResponseIdx(sessionId, participantId) ==
    {i \in 1..Len(quizResponses) :
        /\ quizResponses[i].sessionId = sessionId
        /\ quizResponses[i].participantId = participantId}

\* DatabaseStorage.getQuizResponses: no ORDER BY, the rows as the table lists them
getQuizResponses(sessionId) ==
    SelectSeq(quizResponses, LAMBDA r : r.sessionId = sessionId)

\* DatabaseStorage.getQuizResponsesByBoardId
getQuizResponsesByBoardId(boardId) ==
    SelectSeq(quizResponses,
              LAMBDA r : /\ r.sessionId \in DOMAIN quizSessions
                         /\ quizSessions[r.sessionId].boardId = boardId)

FreeResp == [pc |-> "free", roomCode |-> NULL, sessionId |-> NULL, quizId |-> NULL,
             pid |-> NULL, answer |-> NULL, isCorrect |-> FALSE, existing |-> 0,
             at |-> 0]
DoneResp == [FreeResp EXCEPT !.pc = "done"]
FreeRespSlot == CHOOSE i \in RespSlots :
                    /\ respTasks[i].pc = "free"
                    /\ \A j \in RespSlots : j < i => respTasks[j].pc # "free"

\* what the quiz handlers leave alone
quizFrame == <<now, boards, bdVars, roomVars, focusEntry, attVars, perfResult, httpVars,
               quizTimers, postTasks>>

\* case "quiz:response", up to its first await
QuizResponse(s, sessionId, answer) ==
    /\ InRoom(s)
    /\ \E i \in RespSlots : respTasks[i].pc = "free"
    /\ respTasks' = [respTasks EXCEPT ![FreeRespSlot] =
           [pc |-> "getSession", roomCode |-> sockets[s].currentRoomCode,
            sessionId |-> sessionId, quizId |-> NULL, pid |-> sockets[s].participantId,
            answer |-> answer, isCorrect |-> FALSE, existing |-> 0, at |-> 0]]
    /\ sent' = <<>>
    /\ UNCHANGED <<quizSessions, quizResponses, qrNextId, qrLast, quizFrame>>

\* case "quiz:response" resumed with the session row: only an active session goes on
RespGetSession(i) ==
    LET t == respTasks[i]
        q == getQuizSession(t.sessionId)
    IN  /\ t.pc = "getSession"
        /\ respTasks' = [respTasks EXCEPT ![i] =
               IF q = NULL \/ quizSessions[q].status # "active" THEN DoneResp
               ELSE [t EXCEPT !.pc = "getQuiz", !.quizId = quizSessions[q].quizId]]
        /\ sent' = <<>>
        /\ UNCHANGED <<quizSessions, quizResponses, qrNextId, qrLast, quizFrame>>

\* case "quiz:response" resumed with the quiz row: isCorrect is computed
RespGetQuiz(i) ==
    LET t == respTasks[i]
        quiz == getQuiz(t.quizId)
    IN  /\ t.pc = "getQuiz"
        /\ respTasks' = [respTasks EXCEPT ![i] =
               IF quiz = NULL THEN DoneResp
               ELSE [t EXCEPT !.pc = "read",
                              !.isCorrect = (t.answer = Quizzes[quiz].correctAnswer)]]
        /\ sent' = <<>>
        /\ UNCHANGED <<quizSessions, quizResponses, qrNextId, qrLast, quizFrame>>

\* DatabaseStorage.upsertQuizResponse resumed with the row of getQuizResponse:
\* the first row of the SELECT, whichever the database lists first; the UPDATE
\* is issued with updatedAt = new Date()
RespRead(i) ==
    LET t == respTasks[i]
        idx == QuizResponseIdx(t.sessionId, t.pid)
    IN  /\ t.pc = "read"
        /\ \E x \in (IF idx = {} THEN {0} ELSE {quizResponses[k].id : k \in idx}) :
              respTasks' = [respTasks EXCEPT ![i].pc = "write", ![i].existing = x,
                                             ![i].at = now]
        /\ sent' = <<>>
        /\ UNCHANGED <<quizSessions, quizResponses, qrNextId, qrLast, quizFrame>>

\* DatabaseStorage.upsertQuizResponse resumed after its UPDATE or INSERT, then
\* the live response goes to the room's admins
RespWrite(i) ==
    LET t == respTasks[i]
        room == IF t.roomCode \in DOMAIN rooms THEN rooms[t.roomCode] ELSE EmptyMap
    IN  /\ t.pc = "write"
        /\ IF t.existing # 0
           THEN /\ quizResponses' =
                       [k \in 1..Len(quizResponses) |->
                           IF quizResponses[k].id = t.existing
                           THEN [quizResponses[k] EXCEPT !.answer = t.answer,
                                                         !.isCorrect = t.isCorrect,
                                                         !.updatedAt = t.at]
                           ELSE quizResponses[k]]
                /\ UNCHANGED qrNextId
           ELSE /\ quizResponses' = Append(quizResponses,
                       [id |-> qrNextId, sessionId |-> t.sessionId,
                        participantId |-> t.pid, participantName |-> NameOf(t.pid),
                        answer |-> t.answer, isCorrect |-> t.isCorrect,
                        updatedAt |-> now])
                /\ qrNextId' = qrNextId + 1
        /\ qrLast' = [qrLast EXCEPT ![<<t.sessionId, t.pid>>] = Some(t.answer)]
        /\ respTasks' = [respTasks EXCEPT ![i] = DoneResp]
        /\ sent' = <<Msg("quiz:liveResponse", {p \in OpenPids(room) : room[p].isAdmin},
                         t.pid, Some(t.answer))>>
        /\ UNCHANGED <<quizSessions, quizFrame>>

\* what the quiz:post handlers and timers leave alone
postFrame == <<now, boards, bdVars, roomVars, focusEntry, attVars, perfResult, httpVars,
               quizResponses, qrNextId, respTasks, qrLast>>

IdlePost == [pc |-> "idle", quizId |-> NULL, roomCode |-> NULL, boardRoom |-> NULL,
             boardId |-> NULL]

FreshSessionId == CHOOSE q \in NewSessionIds : q \notin DOMAIN quizSessions

\* case "quiz:post", up to its first await: only an admin of the room posts
QuizPost(s, quizId) ==
    /\ SenderIsAdmin(s)
    /\ postTasks[s].pc = "idle"
    /\ postTasks' = [postTasks EXCEPT ![s] =
           [IdlePost EXCEPT !.pc = "getQuiz", !.quizId = quizId,
                            !.roomCode = sockets[s].currentRoomCode]]
    /\ sent' = <<>>
    /\ UNCHANGED <<quizSessions, quizTimers, postFrame>>

\* case "quiz:post" resumed with the quiz row; the board is then looked up
\* under the connection's current room code
PostGetQuiz(s) ==
    LET t == postTasks[s]
    IN  /\ t.pc = "getQuiz"
        /\ postTasks' = [postTasks EXCEPT ![s] =
               IF getQuiz(t.quizId) = NULL THEN IdlePost
               ELSE [t EXCEPT !.pc = "getBoard",
                              !.boardRoom = sockets[s].currentRoomCode]]
        /\ sent' = <<>>
        /\ UNCHANGED <<quizSessions, quizTimers, postFrame>>

\* case "quiz:post" resumed with the board row
PostGetBoard(s) ==
    LET t == postTasks[s]
        b == getBoardByRoomCode(t.boardRoom)
    IN  /\ t.pc = "getBoard"
        /\ postTasks' = [postTasks EXCEPT ![s] =
               IF b = NULL THEN IdlePost ELSE [t EXCEPT !.pc = "create", !.boardId = b]]
        /\ sent' = <<>>
        /\ UNCHANGED <<quizSessions, quizTimers, postFrame>>

\* case "quiz:post" resumed after createQuizSession: quiz:posted goes to the room
\* the handler started in, and the one-shot timer is scheduled
PostCreate(s) ==
    LET t == postTasks[s]
        room == IF t.roomCode \in DOMAIN rooms THEN rooms[t.roomCode] ELSE EmptyMap
    IN  /\ t.pc = "create"
        /\ \E q \in NewSessionIds : q \notin DOMAIN quizSessions
        /\ quizSessions' = MapSet(quizSessions, FreshSessionId,
               [boardId |-> t.boardId, quizId |-> t.quizId, status |-> "active",
                leaderboardShared |-> FALSE])
        /\ quizTimers' = quizTimers \cup
               {[sessionId |-> FreshSessionId, conn |-> s, roomCode |-> NULL]}
        /\ postTasks' = [postTasks EXCEPT ![s] = IdlePost]
        /\ sent' = <<Msg("quiz:posted", OpenPids(room), FreshSessionId, None)>>
        /\ UNCHANGED postFrame

\* case "quiz:close": quiz:closed goes to the other participants, nothing is stored
QuizClose(s) ==
    /\ SenderIsAdmin(s)
    /\ sent' = <<Msg("quiz:closed", OpenPids(SenderRoom(s)) \ {sockets[s].participantId},
                     NULL, None)>>
    /\ UNCHANGED <<quizSessions, quizTimers, postTasks, postFrame>>

\* the currentRoomCode a timer's callback reads: the variable of the connection
\* that posted (a connection of before the run has kept the room it posted in)
TimerRoomCode(t) == IF t.conn = 0 THEN t.roomCode ELSE sockets[t.conn].currentRoomCode

\* the timer of case "quiz:post", resumed after updateQuizSession: the session
\* is closed, quiz:ended goes to the room named by currentRoomCode
QuizTimer(sessionId) ==
    /\ \E t \in quizTimers : t.sessionId = sessionId
    /\ LET t == CHOOSE t \in quizTimers : t.sessionId = sessionId
           roomCode == TimerRoomCode(t)
       IN  /\ quizTimers' = quizTimers \ {t}
           /\ quizSessions' = IF sessionId \in DOMAIN quizSessions
                              THEN [quizSessions EXCEPT ![sessionId].status = "closed"]
                              ELSE quizSessions
           /\ sent' = IF roomCode # NULL /\ roomCode \in DOMAIN rooms
                      THEN <<Msg("quiz:ended", OpenPids(rooms[roomCode]), sessionId, None)>>
                      ELSE <<>>
    /\ UNCHANGED <<postTasks, postFrame>>

\* case "quiz:showLeaderboard": the first correct responses as listed, names only
ShowLeaderboard(s, sessionId) ==
    LET room == SenderRoom(s)
        responses == getQuizResponses(sessionId)
        correct == SelectSeq(responses, LAMBDA r : r.isCorrect)
        first == Slice(correct, LeaderboardSize)
        top5 == [k \in 1..Len(first) |-> first[k].participantName]
    IN  /\ SenderIsAdmin(s)
        /\ quizSessions' = IF sessionId \in DOMAIN quizSessions
                           THEN [quizSessions EXCEPT ![sessionId].leaderboardShared = TRUE]
                           ELSE quizSessions
        /\ sent' = <<Msg("quiz:leaderboard", OpenPids(room), sessionId, Some(top5))>>
        /\ UNCHANGED <<quizResponses, qrNextId, respTasks, qrLast, quizFrame>>

RECURSIVE ScoreMap(_, _)
\* the scoreMap loop of the cumulative leaderboard: one entry per participantId,
\* in first-seen order, keeping the first name seen
ScoreMap(rows, acc) ==
    IF rows = <<>> THEN acc
    ELSE LET r == Head(rows)
             hit == {i \in 1..Len(acc) : acc[i].pid = r.participantId}
         IN  ScoreMap(Tail(rows),
                 IF ~r.isCorrect THEN acc
                 ELSE IF hit # {}
                 THEN [acc EXCEPT ![CHOOSE i \in hit : TRUE].correct = @ + 1]
                 ELSE Append(acc, [pid |-> r.participantId, name |-> r.participantName,
                                   correct |-> 1]))

RECURSIVE InsertDesc(_, _)
\* e placed behind the entries that do not sort after it (the sort is stable)
InsertDesc(sorted, e) ==
    IF sorted = <<>> THEN <<e>>
    ELSE IF Head(sorted).correct >= e.correct
    THEN <<Head(sorted)>> \o InsertDesc(Tail(sorted), e)
    ELSE <<e>> \o sorted

RECURSIVE SortDesc(_)
\* Array.prototype.sort((a, b) => b.correct - a.correct)
SortDesc(entries) ==
    IF entries = <<>> THEN <<>>
    ELSE InsertDesc(SortDesc(SubSeq(entries, 1, Len(entries) - 1)), entries[Len(entries)])

\* variant of the cumulative leaderboard that cuts the list without sorting it
TopScores_Unsorted(entries) == Slice(entries, LeaderboardSize)

\* .sort(...).slice(0, 5)
TopScores(entries) == Slice(SortDesc(entries), LeaderboardSize)

\* case "quiz:showCumulativeLeaderboard"; the record of the message keeps the
\* request's boardId next to the list that is sent
ShowCumulativeLeaderboard(s, boardId) ==
    LET room == SenderRoom(s)
        sorted == TopScores(ScoreMap(getQuizResponsesByBoardId(boardId), <<>>))
        topWithScores == [k \in 1..Len(sorted) |->
                             [name |-> sorted[k].name, score |-> sorted[k].correct]]
    IN  /\ SenderIsAdmin(s)
        /\ sent' = <<Msg("quiz:cumulativeLeaderboard", OpenPids(room), boardId,
                         Some(topWithScores))>>
        /\ UNCHANGED <<quizVars, quizFrame>>

\* ----------------------------------------------------------- attendance ----
\* the rows of a (boardId, studentId) pair
AttendanceRows(boardId, studentId) ==
    {r \in attendance : r.boardId = boardId /\ r.studentId = studentId}

\* DatabaseStorage.getActiveAttendance: ORDER BY joinedAt DESC LIMIT 1 returns a
\* row with the latest joinedAt, any of them when several share it
getActiveAttendance(boardId, studentId) ==
    {r \in AttendanceRows(boardId, studentId) :
        \A r2 \in AttendanceRows(boardId, studentId) : r2.joinedAt <= r.joinedAt}

FreeAtt == [pc |-> "free", boardId |-> NULL, studentId |-> NULL, rowId |-> 0, at |-> 0]
DoneAtt == [FreeAtt EXCEPT !.pc = "done"]
FreeAttSlot == CHOOSE i \in AttSlots :
                   /\ attTasks[i].pc = "free"
                   /\ \A j \in AttSlots : j < i => attTasks[j].pc # "free"

\* what the attendance handlers leave alone
attFrame == <<now, boards, bdVars, roomVars, sent, focusEntry, quizVars, perfResult,
              httpVars>>

\* the join response: the row returned, whether it was created, and what the
\* previous join of the pair returned
JoinResponse(boardId, studentId, rowId, created) ==
    /\ attResp' = Some([row |-> rowId, created |-> created,
                        prev |-> attLast[<<boardId, studentId>>]])
    /\ attLast' = [attLast EXCEPT ![<<boardId, studentId>>] =
                      Some([row |-> rowId, left |-> FALSE])]

\* POST /api/student-performance/attendance, up to its first await
AttendJoin(boardId, studentId) ==
    /\ \E i \in AttSlots : attTasks[i].pc = "free"
    /\ attTasks' = [attTasks EXCEPT ![FreeAttSlot] =
           [pc |-> "getActive", boardId |-> boardId, studentId |-> studentId,
            rowId |-> 0, at |-> 0]]
    /\ UNCHANGED <<attendance, attNextId, attLast, attResp, attFrame>>

\* the POST resumed with the row of getActiveAttendance: an open row is returned,
\* otherwise a row is created with joinedAt = new Date()
AttendRead(i) ==
    LET t == attTasks[i]
        rows == getActiveAttendance(t.boardId, t.studentId)
    IN  /\ t.pc = "getActive"
        /\ \E existing \in (IF rows = {} THEN {None} ELSE {Some(r) : r \in rows}) :
              IF existing # None /\ existing[1].leftAt = None
              THEN /\ attTasks' = [attTasks EXCEPT ![i] = DoneAtt]
                   /\ JoinResponse(t.boardId, t.studentId, existing[1].id, FALSE)
              ELSE /\ attTasks' = [attTasks EXCEPT ![i].pc = "create", ![i].at = now]
                   /\ UNCHANGED <<attLast, attResp>>
        /\ UNCHANGED <<attendance, attNextId, attFrame>>

\* the POST resumed after createStudentAttendance
AttendCreate(i) ==
    LET t == attTasks[i]
    IN  /\ t.pc = "create"
        /\ attendance' = attendance \cup
               {[id |-> attNextId, boardId |-> t.boardId, studentId |-> t.studentId,
                 joinedAt |-> t.at, leftAt |-> None]}
        /\ attNextId' = attNextId + 1
        /\ attTasks' = [attTasks EXCEPT ![i] = DoneAtt]
        /\ JoinResponse(t.boardId, t.studentId, attNextId, TRUE)
        /\ UNCHANGED attFrame

\* PATCH /api/student-performance/attendance/:id, up to its await
AttendLeave(id) ==
    /\ \E r \in attendance : r.id = id
    /\ \E i \in AttSlots : attTasks[i].pc = "free"
    /\ attTasks' = [attTasks EXCEPT ![FreeAttSlot] =
           [pc |-> "leave", boardId |-> NULL, studentId |-> NULL, rowId |-> id,
            at |-> now]]
    /\ UNCHANGED <<attendance, attNextId, attLast, attResp, attFrame>>

\* the PATCH resumed after updateStudentAttendance(id, {leftAt, timeSpentSeconds})
AttendLeaveDone(i) ==
    LET t == attTasks[i]
    IN  /\ t.pc = "leave"
        /\ attendance' = {IF r.id = t.rowId THEN [r EXCEPT !.leftAt = Some(t.at)] ELSE r :
                             r \in attendance}
        /\ attLast' = [k \in DOMAIN attLast |->
                          IF attLast[k] # None /\ attLast[k][1].row = t.rowId
                          THEN Some([attLast[k][1] EXCEPT !.left = TRUE])
                          ELSE attLast[k]]
        /\ attTasks' = [attTasks EXCEPT ![i] = DoneAtt]
        /\ UNCHANGED <<attNextId, attResp, attFrame>>

\* --------------------------------------------------- teacher performance ----
\* Math.round(n / d * 50) for d > 0
Round50(n, d) == (100 * n + d) \div (2 * d)

\* allBoardData.find(bd => bd.userId === userId), the user's first row, has
\* written lines
HasWritten(boardId, userId) ==
    LET rows == {bd \in boardData : bd.boardId = boardId /\ bd.userId = userId}
    IN  /\ rows # {}
        /\ Len((CHOOSE bd \in rows : \A o \in rows : bd.id <= o.id).linesData) > 0

\* one entry of performanceData
BoardPerformance(boardId, teacherId) ==
    LET uniqueStudents == {a.studentId : a \in {r \in attendance : r.boardId = boardId}}
        sessions == {q \in DOMAIN quizSessions : quizSessions[q].boardId = boardId}
        quizCount == Cardinality(sessions)
        studentsWhoAttemptedQuiz ==
            {quizResponses[i].participantId :
                i \in {k \in 1..Len(quizResponses) : quizResponses[k].sessionId \in sessions}}
        teacherHasWritten == HasWritten(boardId, teacherId)
        twoWayBoardWorkCount ==
            Cardinality({st \in uniqueStudents :
                            HasWritten(boardId, st) /\ teacherHasWritten})
        studentCount == Cardinality(uniqueStudents)
        quizScore == IF studentCount > 0 /\ quizCount > 0
                     THEN Round50(Cardinality(studentsWhoAttemptedQuiz), studentCount)
                     ELSE 0
        twoWayScore == IF studentCount > 0 THEN Round50(twoWayBoardWorkCount, studentCount)
                       ELSE 0
    IN  [studentCount |-> studentCount, quizCount |-> quizCount,
         studentsWhoAttemptedQuiz |-> Cardinality(studentsWhoAttemptedQuiz),
         twoWayBoardWorkCount |-> twoWayBoardWorkCount,
         quizScore |-> quizScore, twoWayScore |-> twoWayScore,
         participationScore |-> quizScore + twoWayScore]

\* GET /api/teacher-performance/:teacherId: an entry for every board the teacher
\* lectures (or created, when no other lecturer is set)
TeacherPerformance(teacherId) ==
    LET mine == {b \in DOMAIN boards :
                    \/ /\ boards[b].creatorId = teacherId
                       /\ boards[b].lecturerId \in {NULL, teacherId}
                    \/ boards[b].lecturerId = teacherId}
    IN  /\ perfResult' = Some([b \in mine |-> BoardPerformance(b, teacherId)])
        /\ UNCHANGED <<now, boards, bdVars, roomVars, sent, focusEntry, quizVars, attVars,
                       httpVars>>

\* ----------------------------------------------------- board management ----
\* a request not started, and a request that has responded
FreeHttp == [pc |-> "free"]
DoneHttp == [pc |-> "done"]

\* const chars of generateRoomCode
RoomCodeChars ==
    <<"A", "B", "C", "D", "E", "F", "G", "H", "J", "K", "L", "M", "N", "P", "Q", "R",
      "S", "T", "U", "V", "W", "X", "Y", "Z", "2", "3", "4", "5", "6", "7", "8", "9">>

\* generateRoomCode, draws[i] / RandomScale being the i-th value of Math.random():
\* chars.charAt(Math.floor(Math.random() * chars.length)), nine times
generateRoomCode(draws) ==
    [i \in 1..RoomCodeLength |->
        RoomCodeChars[((draws[i] * Len(RoomCodeChars)) \div RandomScale) + 1]]

\* the outcomes of the random generator a request meets
DrawSeqs ==
    {[i \in 1..RoomCodeLength |-> 0],
     [i \in 1..RoomCodeLength |-> RandomScale - 1],
     [i \in 1..RoomCodeLength |-> IF i % 2 = 1 THEN 0 ELSE RandomScale \div 2]}

\* DatabaseStorage.getUser
getUser(id) == IF id \in DOMAIN users THEN id ELSE NULL

\* ids the database generates for new boards
NewBoardIds == {"n1", "n2"}
FreshBoardId == CHOOSE b \in NewBoardIds : b \notin DOMAIN boards

\* what PATCH /api/boards/:id receives as req.body
BoardUpdates ==
    {[password |-> "pw"], [lecturerId |-> OtherTeacher], [isEnded |-> TRUE],
     [roomCode |-> generateRoomCode([i \in 1..RoomCodeLength |-> 0])]}

\* variant of the constraint below in which room_code carries no unique index
RoomCodeTaken_NoIndex(roomCode, except) == FALSE

\* boards.room_code is unique(): an INSERT or UPDATE storing roomCode fails when
\* another row holds it
RoomCodeTaken(roomCode, except) ==
    \E b \in DOMAIN boards \ {except} : boards[b].roomCode = roomCode

\* rows that reference boards.id keep the board's row from being deleted
BoardReferenced(id) ==
    \/ \E q \in DOMAIN quizSessions : quizSessions[q].boardId = id
    \/ \E r \in attendance : r.boardId = id
    \/ \E r \in recordings : r.boardId = id
    \/ \E r \in boardData : r.boardId = id

\* variant of the test below that refuses an admin who is not the creator
DeleteRefused_CreatorOnly(board, userId, user) == board.creatorId # userId

\* DELETE /api/boards/:id: board.creatorId !== userId && user?.role !== "admin"
DeleteRefused(board, userId, user) ==
    board.creatorId # userId /\ (user = NULL \/ users[user].role # "admin")

\* PATCH /api/boards/:id: !isCreatorOrLecturer
UpdateRefused(board, userId) ==
    ~(board.creatorId = userId \/ board.lecturerId = userId)

\* POST /api/boards: !user || user.role === "student"
CreateRefused(user) == user = NULL \/ users[user].role = "student"

FreeHttpSlot == CHOOSE i \in HttpSlots :
                    /\ httpTasks[i].pc = "free"
                    /\ \A j \in HttpSlots : j < i => httpTasks[j].pc # "free"

\* res.status(status).json(...) of a request
Respond(i, status, body) ==
    /\ httpResp' = Some([op |-> httpTasks[i].op, userId |-> httpTasks[i].userId,
                         status |-> status, body |-> body])
    /\ httpTasks' = [httpTasks EXCEPT ![i] = DoneHttp]

\* a request passes requireAuth and runs up to its first await
StartRequest(task) ==
    /\ \E i \in HttpSlots : httpTasks[i].pc = "free"
    /\ httpTasks' = [httpTasks EXCEPT ![FreeHttpSlot] = task]
    /\ httpResp' = None

\* what the board routes leave alone
boardFrame == <<now, bdNextId, pendingBoardUpdates, saveTasks, bdLastSave, bdHist, roomVars, sent,
                focusEntry, quizVars, attVars, perfResult, users, recordings, transcripts, recNextId,
                aiParticipant>>

\* POST /api/boards, up to its first await
PostBoards(userId, lecturerId) ==
    /\ StartRequest([pc |-> "createUser", op |-> "create", userId |-> userId,
                     bodyLecturerId |-> lecturerId, role |-> NULL, roomCode |-> <<>>,
                     attempts |-> 0, lecturerId |-> NULL])
    /\ UNCHANGED <<boards, boardData, boardFrame>>

\* POST /api/boards resumed with the caller's row: Forbidden, or the first code
CreateGetUser(i) ==
    LET t == httpTasks[i]
        user == getUser(t.userId)
    IN  /\ t.pc = "createUser"
        /\ IF CreateRefused(user)
           THEN Respond(i, 403, NULL)
           ELSE /\ \E draws \in DrawSeqs :
                      httpTasks' = [httpTasks EXCEPT ![i] =
                          [t EXCEPT !.pc = "createCode", !.role = users[user].role,
                                    !.roomCode = generateRoomCode(draws)]]
                /\ httpResp' = None
        /\ UNCHANGED <<boards, boardData, boardFrame>>

\* the while loop of POST /api/boards resumed with getBoardByRoomCode(roomCode);
\* after it, the lecturer is the caller unless an admin names one
CreateCheckCode(i) ==
    LET t == httpTasks[i]
    IN  /\ t.pc = "createCode"
        /\ IF getBoardByRoomCode(t.roomCode) # NULL /\ t.attempts < MaxAttempts
           THEN \E draws \in DrawSeqs :
                   httpTasks' = [httpTasks EXCEPT ![i] =
                       [t EXCEPT !.roomCode = generateRoomCode(draws),
                                 !.attempts = t.attempts + 1]]
           ELSE httpTasks' = [httpTasks EXCEPT ![i] =
                   IF t.role = "admin" /\ t.bodyLecturerId # NULL
                   THEN [t EXCEPT !.pc = "createLecturer", !.lecturerId = t.userId]
                   ELSE [t EXCEPT !.pc = "createInsert", !.lecturerId = t.userId]]
        /\ httpResp' = None
        /\ UNCHANGED <<boards, boardData, boardFrame>>

\* POST /api/boards resumed with the row of the lecturer an admin named
CreateGetLecturer(i) ==
    LET t == httpTasks[i]
        lecturer == getUser(t.bodyLecturerId)
    IN  /\ t.pc = "createLecturer"
        /\ httpTasks' = [httpTasks EXCEPT ![i] =
               IF lecturer # NULL /\ users[lecturer].role \in {"teacher", "admin"}
               THEN [t EXCEPT !.pc = "createInsert", !.lecturerId = t.bodyLecturerId]
               ELSE [t EXCEPT !.pc = "createInsert"]]
        /\ httpResp' = None
        /\ UNCHANGED <<boards, boardData, boardFrame>>

\* POST /api/boards resumed after createBoard: the INSERT fails on a stored
\* roomCode (Internal server error), otherwise the new row is returned
CreateInsert(i) ==
    LET t == httpTasks[i]
        row == [roomCode |-> t.roomCode, creatorId |-> t.userId,
                lecturerId |-> t.lecturerId, isEnded |-> FALSE, password |-> NULL]
    IN  /\ t.pc = "createInsert"
        /\ NewBoardIds \ DOMAIN boards # {}
        /\ IF RoomCodeTaken(t.roomCode, NULL)
           THEN /\ Respond(i, 500, NULL)
                /\ UNCHANGED boards
           ELSE /\ boards' = MapSet(boards, FreshBoardId, row)
                /\ Respond(i, 200, Some(row))
        /\ UNCHANGED <<boardData, boardFrame>>

\* PATCH /api/boards/:id, up to its first await
PatchBoard(userId, id, updates) ==
    /\ StartRequest([pc |-> "patchGet", op |-> "update", userId |-> userId, id |-> id,
                     updates |-> updates])
    /\ UNCHANGED <<boards, boardData, boardFrame>>

\* PATCH /api/boards/:id resumed with the board's row
PatchGet(i) ==
    LET t == httpTasks[i]
        b == getBoard(t.id)
    IN  /\ t.pc = "patchGet"
        /\ IF b = NULL THEN Respond(i, 404, NULL)
           ELSE IF UpdateRefused(boards[b], t.userId) THEN Respond(i, 403, NULL)
           ELSE /\ httpTasks' = [httpTasks EXCEPT ![i].pc = "patchWrite"]
                /\ httpResp' = None
        /\ UNCHANGED <<boards, boardData, boardFrame>>

\* PATCH /api/boards/:id resumed after updateBoard(id, req.body)
PatchWrite(i) ==
    LET t == httpTasks[i]
        u == t.updates
        row == [f \in DOMAIN boards[t.id] |->
                   IF f \in DOMAIN u THEN u[f] ELSE boards[t.id][f]]
    IN  /\ t.pc = "patchWrite"
        /\ IF t.id \notin DOMAIN boards
           THEN /\ Respond(i, 200, None)
                /\ UNCHANGED boards
           ELSE IF "roomCode" \in DOMAIN u /\ RoomCodeTaken(u.roomCode, t.id)
           THEN /\ Respond(i, 500, NULL)
                /\ UNCHANGED boards
           ELSE /\ boards' = [boards EXCEPT ![t.id] = row]
                /\ Respond(i, 200, Some(row))
        /\ UNCHANGED <<boardData, boardFrame>>

\* DELETE /api/boards/:id, up to its first await
DeleteBoard(userId, id) ==
    /\ StartRequest([pc |-> "deleteGet", op |-> "delete", userId |-> userId, id |-> id,
                     creatorId |-> NULL])
    /\ UNCHANGED <<boards, boardData, boardFrame>>

\* DELETE /api/boards/:id resumed with the board's row
DeleteGet(i) ==
    LET t == httpTasks[i]
        b == getBoard(t.id)
    IN  /\ t.pc = "deleteGet"
        /\ IF b = NULL THEN Respond(i, 404, NULL)
           ELSE /\ httpTasks' = [httpTasks EXCEPT ![i].pc = "deleteUser",
                                                  ![i].creatorId = boards[b].creatorId]
                /\ httpResp' = None
        /\ UNCHANGED <<boards, boardData, boardFrame>>

\* DELETE /api/boards/:id resumed with the caller's row
DeleteGetUser(i) ==
    LET t == httpTasks[i]
    IN  /\ t.pc = "deleteUser"
        /\ IF DeleteRefused([creatorId |-> t.creatorId], t.userId, getUser(t.userId))
           THEN Respond(i, 403, NULL)
           ELSE /\ httpTasks' = [httpTasks EXCEPT ![i].pc = "deleteData"]
                /\ httpResp' = None
        /\ UNCHANGED <<boards, boardData, boardFrame>>

\* DatabaseStorage.deleteBoard resumed after its DELETE on board_data
DeleteData(i) ==
    LET t == httpTasks[i]
    IN  /\ t.pc = "deleteData"
        /\ boardData' = {r \in boardData : r.boardId # t.id}
        /\ httpTasks' = [httpTasks EXCEPT ![i].pc = "deleteRow"]
        /\ httpResp' = None
        /\ UNCHANGED <<boards, boardFrame>>

\* DatabaseStorage.deleteBoard resumed after its DELETE on boards: a row that is
\* still referenced stays (Internal server error)
DeleteRow(i) ==
    LET t == httpTasks[i]
    IN  /\ t.pc = "deleteRow"
        /\ IF BoardReferenced(t.id)
           THEN /\ Respond(i, 500, NULL)
                /\ UNCHANGED boards
           ELSE /\ boards' = MapDel(boards, t.id)
                /\ Respond(i, 200, None)
        /\ UNCHANGED <<boardData, boardFrame>>

\* ------------------------------------------------- password validation ----
\* variant of the response below without the creator / lecturer bypass
ValidateResponse_NoBypass(board, userId, password) ==
    IF board.password \in {NULL, ""} THEN [valid |-> TRUE, hasPassword |-> FALSE]
    ELSE IF password = board.password THEN [valid |-> TRUE]
    ELSE [valid |-> FALSE, hasPassword |-> TRUE]

\* the body POST /api/boards/:roomCode/validate-password answers for a stored
\* board: no password set, then the creator / lecturer bypass, then the comparison
ValidateResponse(board, userId, password) ==
    IF board.password \in {NULL, ""} THEN [valid |-> TRUE, hasPassword |-> FALSE]
    ELSE IF board.creatorId = userId \/ board.lecturerId = userId
    THEN [valid |-> TRUE, isCreator |-> TRUE]
    ELSE IF password = board.password THEN [valid |-> TRUE]
    ELSE [valid |-> FALSE, hasPassword |-> TRUE]

\* POST /api/boards/:roomCode/validate-password, up to its await
ValidatePassword(userId, roomCode, password) ==
    /\ StartRequest([pc |-> "validateGet", op |-> "validate", userId |-> userId,
                     roomCode |-> roomCode, password |-> password])
    /\ UNCHANGED <<boards, boardData, boardFrame>>

\* the request resumed with the row of getBoardByRoomCode
ValidateGet(i) ==
    LET t == httpTasks[i]
        b == getBoardByRoomCode(t.roomCode)
    IN  /\ t.pc = "validateGet"
        /\ IF b = NULL THEN Respond(i, 404, NULL)
           ELSE Respond(i, 200, ValidateResponse(boards[b], t.userId, t.password))
        /\ UNCHANGED <<boards, boardData, boardFrame>>

\* ------------------------------------------------------ audio recording ----
\* the rows the query of DatabaseStorage.getActiveRecording selects
ActiveRecordings(boardId) ==
    {r \in recordings : r.boardId = boardId /\ r.status = "recording"}

\* what the recording routes leave alone
recFrame == <<now, boards, bdVars, roomVars, sent, focusEntry, quizVars, attVars,
              perfResult, users, aiParticipant>>

\* POST /api/audio/start, up to its first await
AudioStart(userId, boardId) ==
    /\ StartRequest([pc |-> "startBoard", op |-> "start", userId |-> userId,
                     boardId |-> boardId])
    /\ UNCHANGED <<recordings, transcripts, recNextId, recFrame>>

\* POST /api/audio/start resumed with the board's row
StartGetBoard(i) ==
    LET t == httpTasks[i]
        b == getBoard(t.boardId)
    IN  /\ t.pc = "startBoard"
        /\ IF b = NULL THEN Respond(i, 404, NULL)
           ELSE IF boards[b].creatorId # t.userId /\ boards[b].lecturerId # t.userId
           THEN Respond(i, 403, NULL)
           ELSE /\ httpTasks' = [httpTasks EXCEPT ![i].pc = "startActive"]
                /\ httpResp' = None
        /\ UNCHANGED <<recordings, transcripts, recNextId, recFrame>>

\* POST /api/audio/start resumed with the row of getActiveRecording
StartGetActive(i) ==
    LET t == httpTasks[i]
    IN  /\ t.pc = "startActive"
        /\ IF ActiveRecordings(t.boardId) # {} THEN Respond(i, 400, NULL)
           ELSE /\ httpTasks' = [httpTasks EXCEPT ![i].pc = "startInsert"]
                /\ httpResp' = None
        /\ UNCHANGED <<recordings, transcripts, recNextId, recFrame>>

\* POST /api/audio/start resumed after createLectureRecording
StartInsert(i) ==
    LET t == httpTasks[i]
        row == [id |-> recNextId, boardId |-> t.boardId, lecturerId |-> t.userId,
                status |-> "recording", audioData |-> NULL]
    IN  /\ t.pc = "startInsert"
        /\ recordings' = recordings \cup {row}
        /\ UNCHANGED transcripts
        /\ recNextId' = recNextId + 1
        /\ Respond(i, 200, Some(row))
        /\ UNCHANGED recFrame

\* POST /api/audio/stop, up to its first await
AudioStop(userId, recordingId) ==
    /\ StartRequest([pc |-> "stopGet", op |-> "stop", userId |-> userId,
                     recordingId |-> recordingId])
    /\ UNCHANGED <<recordings, transcripts, recNextId, recFrame>>

\* POST /api/audio/stop resumed with the recording's row
StopGet(i) ==
    LET t == httpTasks[i]
        found == {r \in recordings : r.id = t.recordingId}
    IN  /\ t.pc = "stopGet"
        /\ IF found = {} THEN Respond(i, 404, NULL)
           ELSE IF \E r \in found : r.lecturerId # t.userId THEN Respond(i, 403, NULL)
           ELSE /\ httpTasks' = [httpTasks EXCEPT ![i].pc = "stopUpdate"]
                /\ httpResp' = None
        /\ UNCHANGED <<recordings, transcripts, recNextId, recFrame>>

\* DatabaseStorage.updateLectureRecording(id, {status})
SetRecordingStatus(id, status) ==
    {IF r.id = id THEN [r EXCEPT !.status = status] ELSE r : r \in recordings}

\* the audioData of a stop request
AudioData == "audio"
\* the text the handler stores when transcribeAudio throws
TranscriptionFailed == "[Transcription failed - audio was saved]"
\* what transcribeAudio returns
TranscriptTexts == {"text"}

\* POST /api/audio/stop resumed after the update to status completed with the
\* audio; the transcription follows
StopUpdate(i) ==
    LET t == httpTasks[i]
    IN  /\ t.pc = "stopUpdate"
        /\ recordings' = {IF r.id = t.recordingId
                          THEN [r EXCEPT !.status = "completed", !.audioData = AudioData]
                          ELSE r : r \in recordings}
        /\ httpTasks' = [httpTasks EXCEPT ![i].pc = "stopTranscribe"]
        /\ httpResp' = None
        /\ UNCHANGED <<transcripts, recNextId, recFrame>>

\* POST /api/audio/stop resumed with the text of transcribeAudio, or with the
\* placeholder when it threw
StopTranscribe(i, transcriptText) ==
    LET t == httpTasks[i]
    IN  /\ t.pc = "stopTranscribe"
        /\ httpTasks' = [httpTasks EXCEPT ![i] =
               [pc |-> "stopCreate", op |-> "stop", userId |-> t.userId,
                recordingId |-> t.recordingId, transcriptText |-> transcriptText]]
        /\ httpResp' = None
        /\ UNCHANGED <<recordings, transcripts, recNextId, recFrame>>

\* POST /api/audio/stop resumed after createLectureTranscript
StopCreate(i) ==
    LET t == httpTasks[i]
    IN  /\ t.pc = "stopCreate"
        /\ transcripts' = transcripts \cup
               {[recordingId |-> t.recordingId, transcriptText |-> t.transcriptText]}
        /\ httpTasks' = [httpTasks EXCEPT ![i].pc = "stopTranscribed"]
        /\ httpResp' = None
        /\ UNCHANGED <<recordings, recNextId, recFrame>>

\* POST /api/audio/stop resumed after the update to status transcribed
StopTranscribed(i) ==
    LET t == httpTasks[i]
    IN  /\ t.pc = "stopTranscribed"
        /\ recordings' = SetRecordingStatus(t.recordingId, "transcribed")
        /\ Respond(i, 200, Some([recordingId |-> t.recordingId,
                                  transcriptText |-> t.transcriptText]))
        /\ UNCHANGED <<transcripts, recNextId, recFrame>>

\* ------------------------------------------------------ user management ----
\* ids the database generates for new users
NewUserIds == {"u1", "u2"}
FreshUserId == CHOOSE u \in NewUserIds : u \notin DOMAIN users

\* DatabaseStorage.getUserByUsername / UsersStorage.getByUsername
getUserByUsername(username) ==
    IF \E u \in DOMAIN users : users[u].username = username
    THEN CHOOSE u \in DOMAIN users : users[u].username = username
    ELSE NULL

\* rows that reference users.id keep the user's row from being deleted
UserReferenced(id) ==
    \/ \E b \in DOMAIN boards : id \in {boards[b].creatorId, boards[b].lecturerId}
    \/ \E r \in attendance : r.studentId = id
    \/ \E r \in recordings : r.lecturerId = id

\* what the user routes leave alone
userFrame == <<now, boards, bdVars, roomVars, sent, focusEntry, quizVars, attVars,
               perfResult, recordings, transcripts, recNextId, aiParticipant>>

\* POST /api/users behind requireAdmin, up to the await of requireAdmin
PostUsers(userId, username, role) ==
    /\ StartRequest([pc |-> "requireAdmin", next |-> "createFind", op |-> "createUser",
                     userId |-> userId, username |-> username, role |-> role])
    /\ UNCHANGED <<users, userFrame>>

\* DELETE /api/users/:id behind requireAdmin
DeleteUsers(userId, id) ==
    /\ StartRequest([pc |-> "requireAdmin", next |-> "userDeleteGet", op |-> "deleteUser",
                     userId |-> userId, id |-> id])
    /\ UNCHANGED <<users, userFrame>>

\* PATCH /api/users/:id/screen-name behind requireAdmin
PatchScreenName(userId, id, screenName) ==
    /\ StartRequest([pc |-> "requireAdmin", next |-> "nameGet", op |-> "screenName",
                     userId |-> userId, id |-> id, screenName |-> screenName])
    /\ UNCHANGED <<users, userFrame>>

\* requireAdmin resumed with the session user's row
RequireAdmin(i) ==
    LET t == httpTasks[i]
        user == getUser(t.userId)
    IN  /\ t.pc = "requireAdmin"
        /\ IF user = NULL \/ users[user].role # "admin"
           THEN Respond(i, 403, NULL)
           ELSE /\ httpTasks' = [httpTasks EXCEPT ![i].pc = t.next]
                /\ httpResp' = None
        /\ UNCHANGED <<users, userFrame>>

\* POST /api/v1/user/create behind requireAuth: the handler createUser starts
V1CreateUser(userId, username, role) ==
    /\ StartRequest([pc |-> "createFind", next |-> NULL, op |-> "v1createUser",
                     userId |-> userId, username |-> username, role |-> role])
    /\ UNCHANGED <<users, userFrame>>

\* the create handler resumed with the row of getUserByUsername; the password
\* hash follows
CreateFindUser(i) ==
    LET t == httpTasks[i]
    IN  /\ t.pc = "createFind"
        /\ IF getUserByUsername(t.username) # NULL THEN Respond(i, 400, NULL)
           ELSE /\ httpTasks' = [httpTasks EXCEPT ![i].pc = "createUserInsert"]
                /\ httpResp' = None
        /\ UNCHANGED <<users, userFrame>>

\* the create handler resumed after createUser: users.username is unique()
CreateUserInsert(i) ==
    LET t == httpTasks[i]
        row == [role |-> IF t.role # NULL THEN t.role ELSE "teacher",
                screenName |-> NULL, username |-> t.username]
    IN  /\ t.pc = "createUserInsert"
        /\ NewUserIds \ DOMAIN users # {}
        /\ IF getUserByUsername(t.username) # NULL
           THEN /\ Respond(i, 500, NULL)
                /\ UNCHANGED users
           ELSE /\ users' = MapSet(users, FreshUserId, row)
                /\ Respond(i, 200, Some(row))
        /\ UNCHANGED userFrame

\* DELETE /api/users/:id resumed with the target's row
UserDeleteGet(i) ==
    LET t == httpTasks[i]
        user == getUser(t.id)
    IN  /\ t.pc = "userDeleteGet"
        /\ IF user = NULL THEN Respond(i, 404, NULL)
           ELSE IF users[user].role = "admin" THEN Respond(i, 403, NULL)
           ELSE /\ httpTasks' = [httpTasks EXCEPT ![i].pc = "userDeleteRow"]
                /\ httpResp' = None
        /\ UNCHANGED <<users, userFrame>>

\* DELETE /api/users/:id resumed after deleteUser: a row that is still
\* referenced stays (Internal server error)
UserDeleteRow(i) ==
    LET t == httpTasks[i]
    IN  /\ t.pc = "userDeleteRow"
        /\ IF UserReferenced(t.id)
           THEN /\ Respond(i, 500, NULL)
                /\ UNCHANGED users
           ELSE /\ users' = MapDel(users, t.id)
                /\ Respond(i, 200, None)
        /\ UNCHANGED userFrame

\* PATCH /api/users/:id/screen-name resumed with the target's row
NameGet(i) ==
    LET t == httpTasks[i]
    IN  /\ t.pc = "nameGet"
        /\ IF getUser(t.id) = NULL THEN Respond(i, 404, NULL)
           ELSE /\ httpTasks' = [httpTasks EXCEPT ![i].pc = "nameWrite"]
                /\ httpResp' = None
        /\ UNCHANGED <<users, userFrame>>

\* PATCH /api/users/:id/screen-name resumed after updateUserScreenName
NameWrite(i) ==
    LET t == httpTasks[i]
    IN  /\ t.pc = "nameWrite"
        /\ users' = [u \in DOMAIN users |->
                        IF u = t.id THEN [users[u] EXCEPT !.screenName = t.screenName]
                        ELSE users[u]]
        /\ Respond(i, 200, None)
        /\ UNCHANGED userFrame

\* PATCH /api/v1/user/update and DELETE /api/v1/user/delete/:userId behind
\* requireAuth: the handlers look up req.params.id, which these routes do not
\* define
V1UpdateOrDelete(userId, op) ==
    /\ StartRequest([pc |-> "v1Get", next |-> NULL, op |-> op, userId |-> userId])
    /\ UNCHANGED <<users, userFrame>>

\* the v1 handler resumed after getById(undefined): no row, or the query throws
V1Get(i) ==
    /\ httpTasks[i].pc = "v1Get"
    /\ \E status \in {404, 500} : Respond(i, status, NULL)
    /\ UNCHANGED <<users, userFrame>>

\* -------------------------------------------------- understanding score ----
Max(a, b) == IF a >= b THEN a ELSE b

\* what generateContent does: it throws, or returns text without a JSON object,
\* a JSON-shaped substring that does not parse, or an object with or without
\* score / feedback
ModelOutputs ==
    {[kind |-> k, score |-> None, feedback |-> None] :
        k \in {"failed", "text", "unparseable"}}
    \cup {[kind |-> "json", score |-> sc, feedback |-> fb] :
             sc \in {None} \cup {Some(n) : n \in (0 - MaxScoreExcess)..(100 + MaxScoreExcess)},
             fb \in {None, Some("fb")}}

\* score = 50, replaced by Math.max(0, Math.min(100, parsed.score || 50)) when
\* the output holds an object that parses
ParsedScore(output) ==
    IF output.kind # "json" THEN DefaultScore
    ELSE Max(0, Min(100, IF output.score = None \/ output.score[1] = 0
                         THEN DefaultScore ELSE output.score[1]))

\* feedback = parsed.feedback || feedback
ParsedFeedback(output) ==
    IF output.kind = "json" /\ output.feedback # None THEN output.feedback[1]
    ELSE "Thank you for participating in the discussion."

\* POST /api/chat/sessions/:sessionId/participants/:participantRowId/score for a
\* stored participant with the given number of messages and model output; the
\* record of the response keeps the model output next to the body
ScoreParticipant(userId, messages, output) ==
    LET body == IF messages = 0
                THEN [score |-> 0, feedback |-> "No conversation took place."]
                ELSE [score |-> ParsedScore(output), feedback |-> ParsedFeedback(output)]
    IN  /\ IF messages > 0 /\ output.kind = "failed"
           THEN /\ UNCHANGED aiParticipant
                /\ httpResp' = Some([op |-> "score", userId |-> userId, status |-> 500,
                                     body |-> NULL, messages |-> messages,
                                     output |-> output])
           ELSE /\ aiParticipant' = [status |-> "completed", score |-> Some(body.score)]
                /\ httpResp' = Some([op |-> "score", userId |-> userId, status |-> 200,
                                     body |-> body, messages |-> messages,
                                     output |-> output])
        /\ UNCHANGED <<now, boards, bdVars, roomVars, sent, focusEntry, quizVars, attVars,
                       perfResult, users, httpTasks, recordings, transcripts, recNextId>>

\* ------------------------------------------------ specification: rooms ----
\* the boards table: b1 is the teacher's board of room R1
Boards0 ==
    [b \in BoardIds \cup {OtherBoard} |->
        IF b = OtherBoard
        THEN [roomCode |-> "R2", creatorId |-> OtherTeacher, lecturerId |-> NULL,
              isEnded |-> FALSE, password |-> NULL]
        ELSE [roomCode |-> "R1", creatorId |-> Teacher, lecturerId |-> NULL,
              isEnded |-> FALSE, password |-> NULL]]

\* the quiz_sessions table after the quizzes were posted
Sessions0 ==
    [q \in SessionIds |->
        [boardId |-> IF q = "q3" THEN OtherBoard ELSE "b1", quizId |-> "quiz1",
         status |-> "active", leaderboardShared |-> FALSE]]

InitBdHist ==
    /\ lastUpdate = None
    /\ burst = [k \in Keys |-> NoBurst]

InitBoards ==
    /\ now = 0
    /\ boards = Boards0
    /\ boardData = {}
    /\ bdNextId = 1
    /\ pendingBoardUpdates = [k \in Keys |-> None]
    /\ saveTasks = [i \in SaveSlots |-> FreeSave]
    /\ bdLastSave = [k \in BoardIds \X Pids |-> None]
    /\ InitBdHist

\* the timers of the active sessions, posted by connections of before the run
InitQuizTimers ==
    /\ quizTimers = {[sessionId |-> q, conn |-> 0,
                      roomCode |-> boards[quizSessions[q].boardId].roomCode] :
                        q \in {q \in DOMAIN quizSessions : quizSessions[q].status = "active"}}
    /\ postTasks = [s \in SocketIds |-> IdlePost]

InitQuizTasks ==
    /\ respTasks = [i \in RespSlots |-> FreeResp]
    /\ qrLast = [k \in SessionIds \X Pids |-> None]

InitQuiz ==
    /\ quizSessions = Sessions0
    /\ quizResponses = <<>>
    /\ qrNextId = 1
    /\ InitQuizTasks
    /\ InitQuizTimers

InitAttendance ==
    /\ attendance = {}
    /\ attNextId = 1
    /\ attTasks = [i \in AttSlots |-> FreeAtt]
    /\ attLast = [k \in BoardIds \X Students |-> None]
    /\ attResp = None

InitPerf == perfResult = None

\* the users table: the start-up admin, two teachers and the students
Users0 ==
    [u \in {Admin, Teacher, OtherTeacher} \cup Students |->
        [role |-> IF u = Admin THEN "admin"
                  ELSE IF u \in Students THEN "student" ELSE "teacher",
         screenName |-> NULL, username |-> u]]

InitHttp ==
    /\ users = Users0
    /\ httpTasks = [i \in HttpSlots |-> FreeHttp]
    /\ httpResp = None
    /\ recordings = {}
    /\ recNextId = 1
    /\ transcripts = {}
    /\ aiParticipant = [status |-> "started", score |-> None]

InitStorage == InitBoards /\ InitQuiz /\ InitAttendance /\ InitPerf /\ InitHttp

InitRoomsEmpty ==
    /\ sockets = [s \in SocketIds |->
                    [state |-> "new", auth |-> NULL, currentRoomCode |-> NULL,
                     participantId |-> NULL]]
    /\ rooms = EmptyMap
    /\ roomFocusState = EmptyMap
    /\ pendingDisconnects = [k \in Keys |-> 0]
    /\ disconnectTimers = {}
    /\ expiryTasks = {}
    /\ joinTasks = [s \in SocketIds |-> IdleJoin]
    /\ boardCreatorCache = [r \in AllRoomCodes |-> [creatorId |-> NULL, lecturerId |-> NULL]]
    /\ sent = <<>>
    /\ focusEntry = [r \in AllRoomCodes |-> None]

InitRoom == InitStorage /\ InitRoomsEmpty

\* every connection joins once (a client rejoins on a new connection)
JoinOnce ==
    \E s \in SocketIds, roomCode \in RoomCodes, pid \in Pids, isPublic \in BOOLEAN :
        sockets[s].participantId = NULL /\ Join(s, roomCode, pid, isPublic)

\* connections come, join, go and expire
NextLifecycle ==
    \/ \E s \in SocketIds, auth \in AuthIds : Connect(s, auth)
    \/ JoinOnce
    \/ \E s \in SocketIds : JoinAdminIds(s)
    \/ \E s \in SocketIds : JoinBoardState(s)
    \/ \E s \in SocketIds : JoinResume(s)
    \/ \E s \in SocketIds : Close(s)
    \/ \E t \in disconnectTimers : TimerFire(t)
    \/ \E e \in expiryTasks : ExpiryGetBoard(e)
    \/ \E e \in expiryTasks : ExpiryFinish(e)
    \/ \E s \in SocketIds, v \in {Some(TRUE), Some(FALSE)} : UpdatePresence(s, v)

\* reconnects within and after the grace period; a participant views another
\* participant's board or (NULL) its own
NextGrace ==
    \/ NextLifecycle
    \/ \E s \in SocketIds, v \in Pids \cup {NULL} :
          v # sockets[s].participantId /\ SetViewingState(s, v)
    \/ Tick

SpecGrace == InitRoom /\ [][NextGrace]_vars

\* the admin's focus commands among joins, presence updates and expiries
NextFocus ==
    \/ NextLifecycle
    \/ \E s \in SocketIds, target \in Pids \cup {NULL} : Focus(s, target)

SpecFocus == InitRoom /\ [][NextFocus]_vars

\* ------------------------------------------- specification: board data ----
\* the teacher has connected on socket 1 and joined room R1 as p1: the state
\* after Connect, Join, JoinAdminIds and JoinBoardState
InitJoined ==
    /\ sockets = [s \in SocketIds |->
                    IF s = 1
                    THEN [state |-> "open", auth |-> Teacher, currentRoomCode |-> "R1",
                          participantId |-> "p1"]
                    ELSE [state |-> "new", auth |-> NULL, currentRoomCode |-> NULL,
                          participantId |-> NULL]]
    /\ rooms = [r \in {"R1"} |-> [p \in {"p1"} |->
                    [joinedAt |-> 0, isAdmin |-> TRUE, isPublic |-> FALSE, ws |-> 1,
                     originalVisibility |-> None, viewingUserId |-> NULL]]]
    /\ roomFocusState = [r \in {"R1"} |->
                    [focusedUserId |-> "p1", originalVisibility |-> Some(FALSE)]]
    /\ pendingDisconnects = [k \in Keys |-> 0]
    /\ disconnectTimers = {}
    /\ expiryTasks = {}
    /\ joinTasks = [s \in SocketIds |-> IdleJoin]
    /\ boardCreatorCache = [r \in AllRoomCodes |-> [creatorId |-> Teacher, lecturerId |-> NULL]]
    /\ sent = <<Msg("userJoined", {}, "p1", None)>>
    /\ focusEntry = [r \in AllRoomCodes |-> Some(FALSE)]

\* saves of drawing data over HTTP and through the debounced WebSocket path
NextBoardData ==
    \/ \E s \in SocketIds : Close(s)
    \/ \E s \in SocketIds, userId \in Pids, lines \in Payloads : BoardUpdate(s, userId, lines)
    \/ \E key \in Keys : FlushTimer(key)
    \/ \E boardId \in BoardIds, userId \in Pids, lines \in Payloads :
          PostBoardData(boardId, userId, lines)
    \/ \E i \in SaveSlots : SaveGetBoard(i)
    \/ \E i \in SaveSlots : SaveRead(i)
    \/ \E i \in SaveSlots : SaveWrite(i)

InitBoardData == InitStorage /\ InitJoined

SpecBoardData == InitBoardData /\ [][NextBoardData]_vars

\* ---------------------------------------------- specification: quizzes ----
\* submissions to the posted sessions by the participant of socket 1, and the
\* sessions' timers
NextQuiz ==
    \/ \E s \in SocketIds, sessionId \in SessionIds, answer \in Answers :
          QuizResponse(s, sessionId, answer)
    \/ \E i \in RespSlots : RespGetSession(i)
    \/ \E i \in RespSlots : RespGetQuiz(i)
    \/ \E i \in RespSlots : RespRead(i)
    \/ \E i \in RespSlots : RespWrite(i)
    \/ \E sessionId \in SessionIds : QuizTimer(sessionId)

SpecQuiz == InitBoardData /\ [][NextQuiz]_vars

\* ----------------------------------------- specification: leaderboards ----
\* the rows a respondent has stored, by pattern: correct in q1; correct in q1
\* and q2; wrong in q1 and correct in q3 (on the other board)
ResponseRow(sessionId, i, isCorrect, t) ==
    [id |-> 0, sessionId |-> sessionId, participantId |-> i, participantName |-> NameOf(i),
     answer |-> IF isCorrect THEN "a" ELSE "b", isCorrect |-> isCorrect, updatedAt |-> t]

RowsOf(i, pattern, t) ==
    CASE pattern = 1 -> <<ResponseRow("q1", i, TRUE, t)>>
      [] pattern = 2 -> <<ResponseRow("q1", i, TRUE, t),
                          ResponseRow("q2", i, TRUE, t + MaxRespondents)>>
      [] OTHER -> <<ResponseRow("q1", i, FALSE, t), ResponseRow("q3", i, TRUE, t)>>

RECURSIVE TableUpTo(_, _, _)
\* the rows of respondents 1..n as the table lists them, the respondents'
\* submission times ascending or descending along the listing
TableUpTo(n, c, order) ==
    IF n = 0 THEN <<>>
    ELSE TableUpTo(n - 1, c, order) \o
         RowsOf(n, c[n], IF order = "asc" THEN n ELSE MaxRespondents + 1 - n)

LeaderboardTable(c, order) ==
    LET rows == TableUpTo(MaxRespondents, c, order)
    IN  [k \in 1..Len(rows) |-> [rows[k] EXCEPT !.id = k]]

InitLeaderboard ==
    /\ InitBoards /\ InitAttendance /\ InitPerf /\ InitHttp /\ InitJoined /\ InitQuizTasks
    /\ quizSessions = Sessions0
    /\ \E c \in [Respondents -> 1..3], order \in {"asc", "desc"} :
          quizResponses = LeaderboardTable(c, order)
    /\ qrNextId = Len(quizResponses) + 1
    /\ InitQuizTimers

NextLeaderboard ==
    \/ \E s \in SocketIds, sessionId \in SessionIds : ShowLeaderboard(s, sessionId)
    \/ \E s \in SocketIds, boardId \in BoardIds \cup {OtherBoard} :
          ShowCumulativeLeaderboard(s, boardId)

SpecLeaderboard == InitLeaderboard /\ [][NextLeaderboard]_vars

\* ------------------------------------------- specification: attendance ----
NextAttendance ==
    \/ \E boardId \in BoardIds, studentId \in Students : AttendJoin(boardId, studentId)
    \/ \E i \in AttSlots : AttendRead(i)
    \/ \E i \in AttSlots : AttendCreate(i)
    \/ \E id \in AttSlots : AttendLeave(id)
    \/ \E i \in AttSlots : AttendLeaveDone(i)
    \/ Tick

SpecAttendance == InitRoom /\ [][NextAttendance]_vars

\* ---------------------------------- specification: teacher performance ----
\* stored data of board b1: who attended, which sessions exist and who responded
\* to each, who has written on a board
PerfRowId == CHOOSE f \in [PerfIds -> 1..Cardinality(PerfIds)] :
                 \A x, y \in PerfIds : x # y => f[x] # f[y]

PerfResponses(sessionId, responders) ==
    SetToSeq({[id |-> PerfRowId[p], sessionId |-> sessionId, participantId |-> p,
               participantName |-> NameOf(p), answer |-> "a", isCorrect |-> TRUE,
               updatedAt |-> 0] : p \in responders})

InitPerformance ==
    /\ now = 0
    /\ boards = Boards0
    /\ bdNextId = 1 + Cardinality(PerfIds) + 1
    /\ pendingBoardUpdates = [k \in Keys |-> None]
    /\ saveTasks = [i \in SaveSlots |-> FreeSave]
    /\ bdLastSave = [k \in BoardIds \X Pids |-> None]
    /\ InitBdHist
    /\ InitRoomsEmpty /\ InitQuizTasks /\ InitPerf /\ InitHttp
    /\ \E writers \in SUBSET (PerfIds \cup {Teacher}) :
          boardData = {[id |-> IF u = Teacher THEN Cardinality(PerfIds) + 1 ELSE PerfRowId[u],
                        boardId |-> "b1", userId |-> u,
                        linesData |-> IF u \in writers THEN <<1>> ELSE <<>>] :
                          u \in PerfIds \cup {Teacher}}
    /\ \E attendees \in SUBSET PerfIds :
          /\ attendance = {[id |-> PerfRowId[st], boardId |-> "b1", studentId |-> st,
                            joinedAt |-> 0, leftAt |-> None] : st \in attendees}
          /\ attNextId = Cardinality(PerfIds) + 1
    /\ attTasks = [i \in AttSlots |-> FreeAtt]
    /\ attLast = [k \in BoardIds \X Students |-> None]
    /\ attResp = None
    /\ \E posted \in SUBSET {"q1", "q2"} :
          /\ quizSessions = [q \in posted \cup {"q3"} |-> Sessions0[q]]
          /\ \E r1 \in SUBSET PerfIds, r2 \in SUBSET PerfIds :
                /\ ("q1" \notin posted => r1 = {})
                /\ ("q2" \notin posted => r2 = {})
                /\ quizResponses = PerfResponses("q1", r1) \o PerfResponses("q2", r2)
    /\ qrNextId = 2 * Cardinality(PerfIds) + 1
    /\ InitQuizTimers

NextPerformance == \E teacherId \in {Teacher, OtherTeacher} : TeacherPerformance(teacherId)

SpecPerformance == InitPerformance /\ [][NextPerformance]_vars

\* ------------------------------------- specification: board management ----
\* two stored boards with generated room codes; b1 has quiz sessions, the
\* other board has none
BoardsGenerated ==
    [b \in BoardIds \cup {OtherBoard} |->
        [Boards0[b] EXCEPT !.roomCode =
            generateRoomCode([i \in 1..RoomCodeLength |->
                                 IF b = OtherBoard THEN RandomScale - 1 ELSE 0])]]

InitBoardAdmin ==
    /\ now = 0
    /\ boards = BoardsGenerated
    /\ boardData = {}
    /\ bdNextId = 1
    /\ pendingBoardUpdates = [k \in Keys |-> None]
    /\ saveTasks = [i \in SaveSlots |-> FreeSave]
    /\ bdLastSave = [k \in BoardIds \X Pids |-> None]
    /\ InitBdHist
    /\ InitRoomsEmpty /\ InitQuizTasks /\ InitAttendance /\ InitPerf /\ InitHttp
    /\ quizSessions = [q \in {"q1", "q2"} |-> Sessions0[q]]
    /\ quizResponses = <<>>
    /\ qrNextId = 1
    /\ InitQuizTimers

NextBoardAdmin ==
    \/ \E userId \in SessionUsers, lecturerId \in {NULL, OtherTeacher, "s1"} :
          PostBoards(userId, lecturerId)
    \/ \E i \in HttpSlots : CreateGetUser(i)
    \/ \E i \in HttpSlots : CreateCheckCode(i)
    \/ \E i \in HttpSlots : CreateGetLecturer(i)
    \/ \E i \in HttpSlots : CreateInsert(i)
    \/ \E userId \in SessionUsers, id \in BoardIds \cup {OtherBoard}, updates \in BoardUpdates :
          PatchBoard(userId, id, updates)
    \/ \E i \in HttpSlots : PatchGet(i)
    \/ \E i \in HttpSlots : PatchWrite(i)
    \/ \E userId \in SessionUsers, id \in BoardIds \cup {OtherBoard} : DeleteBoard(userId, id)
    \/ \E i \in HttpSlots : DeleteGet(i)
    \/ \E i \in HttpSlots : DeleteGetUser(i)
    \/ \E i \in HttpSlots : DeleteData(i)
    \/ \E i \in HttpSlots : DeleteRow(i)

SpecBoardAdmin == InitBoardAdmin /\ [][NextBoardAdmin]_vars

\* ------------------------------------ specification: password validation ----
\* the stored password of board b1 is absent, empty or set; its lecturer is the
\* creator's colleague or nobody
InitPassword ==
    /\ now = 0
    /\ \E pw \in {NULL, "", "pw"}, lecturerId \in {NULL, OtherTeacher} :
          boards = [Boards0 EXCEPT !["b1"].password = pw, !["b1"].lecturerId = lecturerId]
    /\ boardData = {}
    /\ bdNextId = 1
    /\ pendingBoardUpdates = [k \in Keys |-> None]
    /\ saveTasks = [i \in SaveSlots |-> FreeSave]
    /\ bdLastSave = [k \in BoardIds \X Pids |-> None]
    /\ InitBdHist
    /\ InitRoomsEmpty /\ InitQuiz /\ InitAttendance /\ InitPerf /\ InitHttp

NextPassword ==
    \/ \E userId \in SessionUsers, roomCode \in {"R1", "R2", "R0"},
          password \in {NULL, "pw", "x"} : ValidatePassword(userId, roomCode, password)
    \/ \E i \in HttpSlots : ValidateGet(i)

SpecPassword == InitPassword /\ [][NextPassword]_vars

\* ---------------------------------------- specification: audio recording ----
NextRecording ==
    \/ \E userId \in {Teacher, "s1"}, boardId \in BoardIds \cup {"b0"} :
          AudioStart(userId, boardId)
    \/ \E i \in HttpSlots : StartGetBoard(i)
    \/ \E i \in HttpSlots : StartGetActive(i)
    \/ \E i \in HttpSlots : StartInsert(i)
    \/ \E userId \in {Teacher, "s1"}, recordingId \in 1..MaxRequests :
          AudioStop(userId, recordingId)
    \/ \E i \in HttpSlots : StopGet(i)
    \/ \E i \in HttpSlots : StopUpdate(i)
    \/ \E i \in HttpSlots, transcriptText \in TranscriptTexts \cup {TranscriptionFailed} :
          StopTranscribe(i, transcriptText)
    \/ \E i \in HttpSlots : StopCreate(i)
    \/ \E i \in HttpSlots : StopTranscribed(i)

SpecRecording == InitRoom /\ [][NextRecording]_vars

\* ------------------------------------- specification: admin classification ----
\* connections of the creator, of a colleague and of guests join room R1 while
\* the creator names the colleague lecturer of the board, or ends the board
NextJoinAdmin ==
    \/ \E s \in SocketIds, auth \in {Teacher, OtherTeacher, NULL} : Connect(s, auth)
    \/ JoinOnce
    \/ \E s \in SocketIds : JoinAdminIds(s)
    \/ \E s \in SocketIds : JoinBoardState(s)
    \/ \E s \in SocketIds : JoinResume(s)
    \/ \E updates \in {[lecturerId |-> OtherTeacher], [isEnded |-> TRUE]} :
          PatchBoard(Teacher, "b1", updates)
    \/ \E i \in HttpSlots : PatchGet(i)
    \/ \E i \in HttpSlots : PatchWrite(i)

SpecJoinAdmin == InitRoom /\ [][NextJoinAdmin]_vars

\* ---------------------------------------- specification: user management ----
NextUsers ==
    \/ \E userId \in SessionUsers, username \in {Admin, "new"}, role \in {NULL, "admin"} :
          PostUsers(userId, username, role)
    \/ \E userId \in SessionUsers, id \in {"s1", "s2", Admin, "u1"} : DeleteUsers(userId, id)
    \/ \E userId \in SessionUsers, id \in {"s1", "zz"}, screenName \in {"Sam", NULL} :
          PatchScreenName(userId, id, screenName)
    \/ \E i \in HttpSlots : RequireAdmin(i)
    \/ \E userId \in SessionUsers, username \in {Admin, "new"}, role \in {NULL, "admin"} :
          V1CreateUser(userId, username, role)
    \/ \E i \in HttpSlots : CreateFindUser(i)
    \/ \E i \in HttpSlots : CreateUserInsert(i)
    \/ \E i \in HttpSlots : UserDeleteGet(i)
    \/ \E i \in HttpSlots : UserDeleteRow(i)
    \/ \E i \in HttpSlots : NameGet(i)
    \/ \E i \in HttpSlots : NameWrite(i)
    \/ \E userId \in SessionUsers, op \in {"v1updateUser", "v1deleteUser"} :
          V1UpdateOrDelete(userId, op)
    \/ \E i \in HttpSlots : V1Get(i)

SpecUsers == InitRoom /\ [][NextUsers]_vars

\* ------------------------------------- specification: understanding score ----
NextScore ==
    \E userId \in {Teacher}, messages \in 0..1, output \in ModelOutputs :
        ScoreParticipant(userId, messages, output)

SpecScore == InitRoom /\ [][NextScore]_vars

\* ------------------------------------------ specification: quiz timers ----
\* connections join and change rooms, admins post and close quizzes, and every
\* scheduled timer fires
\* one session is stored and its timer is pending
InitQuizTimer ==
    /\ InitBoards /\ InitAttendance /\ InitPerf /\ InitHttp /\ InitRoomsEmpty /\ InitQuizTasks
    /\ quizSessions = [q \in {"q1"} |-> Sessions0[q]]
    /\ quizResponses = <<>>
    /\ qrNextId = 1
    /\ InitQuizTimers

\* the user id each client joins with
ClientId(s) == IF s = 1 THEN "p1" ELSE "p2"

NextQuizTimer ==
    \/ \E s \in SocketIds, auth \in AuthIds : Connect(s, auth)
    \/ \E s \in SocketIds, roomCode \in AllRoomCodes : Join(s, roomCode, ClientId(s), FALSE)
    \/ \E s \in SocketIds : JoinAdminIds(s)
    \/ \E s \in SocketIds : JoinBoardState(s)
    \/ \E s \in SocketIds, quizId \in QuizIds : QuizPost(s, quizId)
    \/ \E s \in SocketIds : PostGetQuiz(s)
    \/ \E s \in SocketIds : PostGetBoard(s)
    \/ \E s \in SocketIds : PostCreate(s)
    \/ \E s \in SocketIds : QuizClose(s)
    \/ \E sessionId \in SessionIds \cup NewSessionIds : QuizTimer(sessionId)

\* setTimeout runs the callback of every timer it was given
FairQuizTimer == \A sessionId \in SessionIds \cup NewSessionIds : WF_vars(QuizTimer(sessionId))

SpecQuizTimer == InitQuizTimer /\ [][NextQuizTimer]_vars /\ FairQuizTimer

\* ----------------------------------- specification: debounced updates ----
\* the teacher (p1, admin) and a student (p2) have joined room R1 on a
\* connection each
InitTwoJoined ==
    /\ sockets = [s \in SocketIds |->
                    [state |-> "open", auth |-> IF s = 1 THEN Teacher ELSE NULL,
                     currentRoomCode |-> "R1", participantId |-> ClientId(s)]]
    /\ rooms = [r \in {"R1"} |-> [p \in Pids |->
                    [joinedAt |-> 0, isAdmin |-> (p = "p1"), isPublic |-> FALSE,
                     ws |-> IF p = "p1" THEN 1 ELSE 2,
                     originalVisibility |-> None, viewingUserId |-> NULL]]]
    /\ roomFocusState = [r \in {"R1"} |->
                    [focusedUserId |-> "p1", originalVisibility |-> Some(FALSE)]]
    /\ pendingDisconnects = [k \in Keys |-> 0]
    /\ disconnectTimers = {}
    /\ expiryTasks = {}
    /\ joinTasks = [s \in SocketIds |-> IdleJoin]
    /\ boardCreatorCache = [r \in AllRoomCodes |-> [creatorId |-> Teacher, lecturerId |-> NULL]]
    /\ sent = <<Msg("userJoined", {"p1"}, "p2", None)>>
    /\ focusEntry = [r \in AllRoomCodes |-> Some(FALSE)]

InitDebounce == InitStorage /\ InitTwoJoined

\* both send board updates for either sub-canvas, the timers fire, the
\* connections close, the flushed saves run
NextDebounce ==
    \/ \E s \in SocketIds, userId \in Pids, lines \in Payloads : BoardUpdate(s, userId, lines)
    \/ \E key \in Keys : FlushTimer(key)
    \/ \E s \in SocketIds : Close(s)
    \/ \E i \in SaveSlots : SaveGetBoard(i)
    \/ \E i \in SaveSlots : SaveRead(i)
    \/ \E i \in SaveSlots : SaveWrite(i)

SpecDebounce == InitDebounce /\ [][NextDebounce]_vars

\* ------------------------------------------- specification: shutdown ----
\* the same run, ended at any moment by a shutdown of the server
NextShutdown ==
    \/ \E s \in SocketIds, userId \in Pids, lines \in Payloads : BoardUpdate(s, userId, lines)
    \/ \E key \in Keys : FlushTimer(key)
    \/ \E s \in SocketIds : Close(s)
    \/ \E i \in SaveSlots : SaveGetBoard(i)
    \/ \E i \in SaveSlots : SaveRead(i)
    \/ \E i \in SaveSlots : SaveWrite(i)
    \/ Shutdown

SpecShutdown == InitDebounce /\ [][NextShutdown]_vars

\* --------------------------------- specification: suspended expiries ----
\* the teacher (p1, admin) has left room R1 and the grace timer has fired while
\* a student (p2, connection 1) was in the room: the callback has removed p1
\* and is suspended on storage.getBoardByRoomCode
InitExpirySuspended ==
    /\ sockets = [s \in SocketIds |->
                    IF s = 1
                    THEN [state |-> "open", auth |-> NULL, currentRoomCode |-> "R1",
                          participantId |-> "p2"]
                    ELSE [state |-> "new", auth |-> NULL, currentRoomCode |-> NULL,
                          participantId |-> NULL]]
    /\ rooms = [r \in {"R1"} |-> [p \in {"p2"} |->
                    [joinedAt |-> 0, isAdmin |-> FALSE, isPublic |-> FALSE, ws |-> 1,
                     originalVisibility |-> None, viewingUserId |-> NULL]]]
    /\ roomFocusState = [r \in {"R1"} |->
                    [focusedUserId |-> "p1", originalVisibility |-> Some(FALSE)]]
    /\ pendingDisconnects = [k \in Keys |-> 0]
    /\ disconnectTimers = {}
    /\ expiryTasks = {[id |-> 0, roomCode |-> "R1", pid |-> "p1", pc |-> "getBoard",
                       detached |-> None]}
    /\ joinTasks = [s \in SocketIds |-> IdleJoin]
    /\ boardCreatorCache = [r \in AllRoomCodes |->
                    IF r = "R1" THEN [creatorId |-> Teacher, lecturerId |-> NULL]
                    ELSE [creatorId |-> NULL, lecturerId |-> NULL]]
    /\ sent = <<>>
    /\ focusEntry = [r \in AllRoomCodes |-> None]

InitExpiryRace == InitStorage /\ InitExpirySuspended

\* while the callback is suspended the student leaves and expires, and a new
\* connection (the teacher's or a guest's) joins the room
NextExpiryRace ==
    \/ \E s \in SocketIds, auth \in AuthIds : Connect(s, auth)
    \/ JoinOnce
    \/ \E s \in SocketIds : JoinBoardState(s)
    \/ \E s \in SocketIds : JoinResume(s)
    \/ \E s \in SocketIds : Close(s)
    \/ \E t \in disconnectTimers : TimerFire(t)
    \/ \E e \in expiryTasks : ExpiryGetBoard(e)
    \/ \E e \in expiryTasks : ExpiryFinish(e)

SpecExpiryRace == InitExpiryRace /\ [][NextExpiryRace]_vars

\* ------------------------------------------- properties: grace period ----
\* the sockets of a participant map that are open
OpenIn(room) == {p \in DOMAIN room : sockets[room[p].ws].state = "open"}

\* a join's head clears the timer registered for its key
C5_JoinCancelsTimer ==
    \A s \in SocketIds :
        (sockets[s].participantId = NULL /\ sockets'[s].participantId # NULL) =>
            LET k == Key(sockets'[s].currentRoomCode, sockets'[s].participantId)
            IN  /\ pendingDisconnects'[k] = 0
                /\ \A t \in disconnectTimers' : t.id # pendingDisconnects[k]

\* a timer that goes away leaves a participant whose registered socket is open
C5_TimerSpares ==
    \A t \in disconnectTimers :
        (/\ t \notin disconnectTimers'
         /\ t.roomCode \in DOMAIN rooms
         /\ t.pid \in DOMAIN rooms[t.roomCode]
         /\ IsOpen(rooms[t.roomCode][t.pid].ws))
        => /\ t.roomCode \in DOMAIN rooms'
           /\ t.pid \in DOMAIN rooms'[t.roomCode]

\* a record stored over an existing one keeps the four fields
C5_KeepsRecord ==
    \A r \in DOMAIN rooms \cap DOMAIN rooms' :
        \A p \in DOMAIN rooms[r] \cap DOMAIN rooms'[r] :
            rooms'[r][p].ws # rooms[r][p].ws =>
                /\ rooms'[r][p].joinedAt = rooms[r][p].joinedAt
                /\ rooms'[r][p].isPublic = rooms[r][p].isPublic
                /\ rooms'[r][p].originalVisibility = rooms[r][p].originalVisibility
                /\ rooms'[r][p].viewingUserId = rooms[r][p].viewingUserId

\* C5: a participant who disconnects and joins the same room again with the same
\* participant id before the grace timer fires is not removed by that timer (the
\* join clears it, and no timer removes a participant whose registered socket is
\* open), and the record the join stores keeps the existing joinedAt, isPublic,
\* originalVisibility and viewingUserId.
C5_ReconnectKeepsParticipant ==
    [][C5_JoinCancelsTimer /\ C5_TimerSpares /\ C5_KeepsRecord]_vars

\* C5 witness: a participant is back on a new open connection after its old one
\* closed, with no timer left for its key, the joinedAt of its first join and the
\* viewing state it had (just sent back as restoreViewingState)
C5_Witness ==
    \E r \in DOMAIN rooms : \E p \in DOMAIN rooms[r] : \E s1 \in SocketIds :
        /\ sockets[s1].state = "closed"
        /\ sockets[s1].participantId = p
        /\ rooms[r][p].ws # s1
        /\ IsOpen(rooms[r][p].ws)
        /\ rooms[r][p].joinedAt < now
        /\ rooms[r][p].viewingUserId # NULL
        /\ pendingDisconnects[Key(r, p)] = 0
        /\ \A t \in disconnectTimers : t.pid # p
        /\ Len(sent) >= 2
        /\ sent[2] = Msg("restoreViewingState", {p}, rooms[r][p].viewingUserId, None)

\* the step of a grace timer that fires on a participant without an open socket
C6_TimerRemoves ==
    \A t \in disconnectTimers :
        (/\ t \notin disconnectTimers'
         /\ sockets' = sockets
         /\ t.roomCode \in DOMAIN rooms
         /\ t.pid \in DOMAIN rooms[t.roomCode]
         /\ ~IsOpen(rooms[t.roomCode][t.pid].ws))
        => LET rest == MapDel(rooms[t.roomCode], t.pid)
           IN  /\ (DOMAIN rest = {}) <=> (t.roomCode \notin DOMAIN rooms')
               /\ t.roomCode \in DOMAIN rooms' => rooms'[t.roomCode] = rest
               /\ \/ sent' = <<Msg("userLeft", OpenIn(rest), t.pid, None)>>
                  \/ /\ t.wasAdmin
                     /\ DOMAIN rest # {}
                     /\ \E e \in expiryTasks' :
                            e.id = t.id /\ e.pid = t.pid /\ e.roomCode = t.roomCode

\* the step that ends the callback of an admin's timer, after its storage calls
C6_ExpiryAnnounces ==
    \A e \in expiryTasks :
        (e.pc = "updateBoard" /\ \A e2 \in expiryTasks' : e2.id # e.id) =>
            /\ Len(sent') = 2
            /\ sent'[2] = Msg("userLeft", OpenIn(TaskRoom(e)), e.pid, None)
            /\ DOMAIN TaskRoom(e) = {} => e.roomCode \notin DOMAIN rooms'

\* C6: when a grace timer fires and the departed participant has no open socket
\* registered in the room, the participant is removed from the room, userLeft is
\* sent to every remaining open socket of the room (at once, or after the storage
\* calls of a departed admin's callback), and a room left without participants
\* is removed from the registry.
C6_ExpiryRemovesParticipant == [][C6_TimerRemoves /\ C6_ExpiryAnnounces]_vars

\* C6 witness: a timer has just removed a participant and told one who stays
C6_Witness ==
    \E r \in DOMAIN rooms :
        /\ Len(sent) = 1
        /\ sent[1].type = "userLeft"
        /\ sent[1].to # {}
        /\ sent[1].to = OpenIn(rooms[r])
        /\ sent[1].userId \notin DOMAIN rooms[r]
        /\ \E s \in SocketIds :
              sockets[s].state = "closed" /\ sockets[s].participantId = sent[1].userId

\* -------------------------------------------------- properties: focus ----
\* C7: when the admin focuses B while another participant A of the room is the
\* focus target, A's isPublic goes back to A's saved visibility and a
\* presenceUpdate for A is broadcast first, then B's visibility is saved, B is
\* forced public and a presenceUpdate for B is broadcast (then the focus
\* message); the room's focus target is B afterwards.
C7_FocusSwitch ==
    [][\A r \in DOMAIN rooms :
          LET fs == FocusStateOf(r)
              A == fs.focusedUserId
              room == rooms[r]
              n == Len(sent')
              B == sent'[n].userId
          IN  (/\ n > 0
               /\ sent'[n].type = "focus"
               /\ sent'[1].type # "participants"
               /\ A # NULL /\ B # NULL /\ A # B
               /\ A \in DOMAIN room /\ B \in DOMAIN room)
              => /\ fs.originalVisibility # None
                 /\ sent' = <<Msg("presenceUpdate", OpenIn(room), A, fs.originalVisibility),
                              Msg("presenceUpdate", OpenIn(room), B, Some(TRUE)),
                              Msg("focus", OpenIn(room), B, None)>>
                 /\ rooms'[r][A].isPublic = fs.originalVisibility[1]
                 /\ rooms'[r][B].isPublic = TRUE
                 /\ roomFocusState'[r] =
                        [focusedUserId |-> B,
                         originalVisibility |-> Some(room[B].isPublic)]]_vars

\* C7 witness: the focus has just moved from A, now private again, to B
C7_Witness ==
    \E r \in DOMAIN rooms :
        /\ Len(sent) = 3
        /\ sent[1].type = "presenceUpdate" /\ sent[1].flag = Some(FALSE)
        /\ sent[2].type = "presenceUpdate" /\ sent[2].flag = Some(TRUE)
        /\ sent[3].type = "focus"
        /\ sent[1].userId # sent[2].userId
        /\ sent[3].userId = sent[2].userId
        /\ r \in DOMAIN roomFocusState
        /\ roomFocusState[r].focusedUserId = sent[2].userId
        /\ roomFocusState[r].originalVisibility = Some(FALSE)
        /\ rooms[r][sent[1].userId].isPublic = FALSE
        /\ rooms[r][sent[2].userId].isPublic = TRUE

\* C8: if X had isPublic = v when it became the focus target, then after any
\* number of consecutive focus commands for X followed by a defocus, with no
\* updatePresence from X in between, X.isPublic is v again and the room has no
\* focus target.
C8_FocusRoundTrip ==
    [][\A r \in DOMAIN rooms :
          LET X == FocusStateOf(r).focusedUserId
              n == Len(sent')
          IN  (/\ n > 0
               /\ sent'[n].type = "focus"
               /\ sent'[n].userId = NULL
               /\ X # NULL
               /\ X \in DOMAIN rooms[r]
               /\ focusEntry[r] # None)
              => /\ rooms'[r][X].isPublic = focusEntry[r][1]
                 /\ roomFocusState'[r].focusedUserId = NULL]_vars

\* --------------------------------------------- properties: board data ----
\* C1: once a save for a (boardId, userId) pair has completed, exactly one
\* board-data row exists for the pair and it holds the payload of the save that
\* completed last, however the read and write steps of the saves interleave.
C1_OneRowPerPair ==
    \A pair \in BoardIds \X Pids :
        bdLastSave[pair] # None =>
            /\ Cardinality(BoardDataRows(pair[1], pair[2])) = 1
            /\ \A r \in BoardDataRows(pair[1], pair[2]) : r.linesData = bdLastSave[pair][1]

\* ---------------------------------------------- properties: responses ----
\* C2: each (sessionId, participantId) pair has at most one quiz response row,
\* and that row holds the answer of the pair's latest completed submission,
\* also when submissions of the pair overlap
C2_OneResponsePerPair ==
    \A q \in SessionIds, p \in Pids :
        /\ Cardinality(QuizResponseIdx(q, p)) <= 1
        /\ qrLast[<<q, p>>] # None =>
              \A k \in QuizResponseIdx(q, p) : quizResponses[k].answer = qrLast[<<q, p>>][1]

\* --------------------------------------------- properties: attendance ----
\* C3: a join answered after another join of the same student and board, with
\* no leave on the returned row in between, returns that same open row and
\* creates none; a join answered after a leave on that row creates a new row
C3_JoinReusesOpenRow ==
    attResp # None /\ attResp[1].prev # None =>
        IF attResp[1].prev[1].left
        THEN attResp[1].created /\ attResp[1].row # attResp[1].prev[1].row
        ELSE ~attResp[1].created /\ attResp[1].row = attResp[1].prev[1].row

\* -------------------------------------------- properties: performance ----
\* C4: for every board of the report, participationScore is quizScore plus
\* twoWayScore and lies in 0..100, each component lying in 0..50
C4_ScoreRange ==
    perfResult # None =>
        \A b \in DOMAIN perfResult[1] :
            LET e == perfResult[1][b]
            IN  /\ e.participationScore = e.quizScore + e.twoWayScore
                /\ e.participationScore \in 0..100
                /\ e.quizScore \in 0..50
                /\ e.twoWayScore \in 0..50

\* ------------------------------------------- properties: leaderboards ----
\* the correct rows of a session (as positions in the table)
CorrectIdx(sessionId) ==
    {i \in 1..Len(quizResponses) :
        quizResponses[i].sessionId = sessionId /\ quizResponses[i].isCorrect}

\* the names of the correct respondents of a session, earliest updatedAt first,
\* at most LeaderboardSize of them
EarliestCorrectNames(sessionId) ==
    LET idx == CorrectIdx(sessionId)
        Rank(i) == Cardinality({j \in idx :
                       quizResponses[j].updatedAt < quizResponses[i].updatedAt})
    IN  [k \in 1..Min(LeaderboardSize, Cardinality(idx)) |->
            quizResponses[CHOOSE i \in idx : Rank(i) = k - 1].participantName]

\* C9: a quiz:leaderboard message lists only names, at most five: those of the
\* session's correct respondents with the earliest updatedAt, in ascending
\* time order
C9_LeaderboardEarliestCorrect ==
    \A k \in 1..Len(sent) :
        sent[k].type = "quiz:leaderboard" =>
            sent[k].flag[1] = EarliestCorrectNames(sent[k].userId)

\* the number of correct responses of a participant in the sessions of a board
BoardScore(boardId, participantId) ==
    Cardinality({i \in 1..Len(quizResponses) :
        /\ quizResponses[i].participantId = participantId
        /\ quizResponses[i].isCorrect
        /\ quizResponses[i].sessionId \in DOMAIN quizSessions
        /\ quizSessions[quizResponses[i].sessionId].boardId = boardId})

\* the participants with a correct response on a board
Scorers(boardId) == {p \in Respondents : BoardScore(boardId, p) > 0}

\* C10: a quiz:cumulativeLeaderboard message lists at most five {name, score}
\* entries: score is the participant's number of correct responses across the
\* board's sessions, the entries are the highest-scoring participants, in
\* descending score order
C10_CumulativeTopScores ==
    \A k \in 1..Len(sent) :
        sent[k].type = "quiz:cumulativeLeaderboard" =>
            LET top == sent[k].flag[1]
                b == sent[k].userId
                listed == {p \in Scorers(b) : \E i \in 1..Len(top) : top[i].name = NameOf(p)}
            IN  /\ Len(top) = Min(LeaderboardSize, Cardinality(Scorers(b)))
                /\ \A i \in 1..Len(top) :
                      /\ DOMAIN top[i] = {"name", "score"}
                      /\ \E p \in Scorers(b) : /\ top[i].name = NameOf(p)
                                               /\ top[i].score = BoardScore(b, p)
                /\ \A i, j \in 1..Len(top) :
                      i < j => top[i].name # top[j].name /\ top[i].score >= top[j].score
                /\ \A p \in Scorers(b) \ listed :
                      BoardScore(b, p) <= top[Len(top)].score

\* C10 witness: a cumulative leaderboard of five entries was sent for a board
\* with six scorers, entries of score 2 ahead of entries of score 1, and a
\* scorer of 2 stored behind a scorer of 1
C10_Witness ==
    \E k \in 1..Len(sent) :
        /\ sent[k].type = "quiz:cumulativeLeaderboard"
        /\ Cardinality(Scorers(sent[k].userId)) = MaxRespondents
        /\ Len(sent[k].flag[1]) = LeaderboardSize
        /\ sent[k].flag[1][1].score = 2
        /\ sent[k].flag[1][LeaderboardSize].score = 1
        /\ BoardScore(sent[k].userId, 1) = 1
        /\ BoardScore(sent[k].userId, MaxRespondents) = 2

\* --------------------------------------- properties: board management ----
\* request i passes the step that decides on Forbidden, leaving position pc
DecidesAt(i, pc) == httpTasks[i].pc = pc /\ httpTasks'[i].pc # pc

\* this step answers Forbidden
Refuses == httpResp' # None /\ httpResp'[1].status = 403

\* board-update is refused exactly for a caller who is neither the stored
\* board's creator nor its lecturer, board-delete exactly for a caller who is
\* neither the board's creator nor an admin; a refusal leaves storage unchanged
\* and no other step of a board request refuses
C11_UpdateDeleteRule ==
    /\ \A i \in HttpSlots :
          DecidesAt(i, "patchGet") =>
              (Refuses <=>
                  /\ httpTasks[i].id \in DOMAIN boards
                  /\ boards[httpTasks[i].id].creatorId # httpTasks[i].userId
                  /\ boards[httpTasks[i].id].lecturerId # httpTasks[i].userId)
    /\ \A i \in HttpSlots :
          DecidesAt(i, "deleteUser") =>
              (Refuses <=>
                  /\ httpTasks[i].creatorId # httpTasks[i].userId
                  /\ ~(/\ httpTasks[i].userId \in DOMAIN users
                       /\ users[httpTasks[i].userId].role = "admin"))
    /\ Refuses => /\ boards' = boards /\ boardData' = boardData /\ users' = users
                  /\ \E i \in HttpSlots :
                        \/ DecidesAt(i, "createUser")
                        \/ DecidesAt(i, "patchGet")
                        \/ DecidesAt(i, "deleteUser")

\* C11 as claimed: board mutations are refused with Forbidden, storage
\* unchanged, in exactly these cases: board-create by a caller with role
\* student, board-update by a caller who is neither creator nor lecturer,
\* board-delete by a caller who is neither creator nor admin
C11_ForbiddenExactly ==
    [][/\ C11_UpdateDeleteRule
       /\ \A i \in HttpSlots :
             DecidesAt(i, "createUser") =>
                 (Refuses <=>
                     /\ httpTasks[i].userId \in DOMAIN users
                     /\ users[httpTasks[i].userId].role = "student")]_vars

\* C11 amended: as claimed, except that board-create is refused for a caller
\* with role student and also for a caller whose user row no longer exists
C11_ForbiddenCases ==
    [][/\ C11_UpdateDeleteRule
       /\ \A i \in HttpSlots :
             DecidesAt(i, "createUser") =>
                 (Refuses <=>
                     \/ httpTasks[i].userId \notin DOMAIN users
                     \/ users[httpTasks[i].userId].role = "student")]_vars

\* C11 witness: the admin, not the creator of the other teacher's board, has
\* deleted it
C11_Witness ==
    /\ httpResp # None
    /\ httpResp[1].op = "delete" /\ httpResp[1].userId = Admin /\ httpResp[1].status = 200
    /\ OtherBoard \notin DOMAIN boards
    /\ BoardsGenerated[OtherBoard].creatorId # Admin

\* ------------------------------------ properties: password validation ----
\* request i is a validation by the creator or the lecturer of a stored board
ByCreatorOrLecturer(i) ==
    /\ DecidesAt(i, "validateGet")
    /\ \E b \in DOMAIN boards :
          /\ boards[b].roomCode = httpTasks[i].roomCode
          /\ httpTasks[i].userId \in {boards[b].creatorId, boards[b].lecturerId}

\* the board a validation request names has a password set
PasswordSet(i) ==
    \E b \in DOMAIN boards : /\ boards[b].roomCode = httpTasks[i].roomCode
                             /\ boards[b].password \notin {NULL, ""}

\* C12 as claimed: whenever the caller is the board's creator or lecturer, the
\* response is {valid:true, isCreator:true} for every stored password value
\* (set or not set) and every supplied password
C12_CreatorAlwaysIsCreator ==
    [][\A i \in HttpSlots :
          ByCreatorOrLecturer(i) =>
              httpResp'[1].body = [valid |-> TRUE, isCreator |-> TRUE]]_vars

\* C12 amended: whenever the caller is the board's creator or lecturer, the
\* response has valid:true for every stored and every supplied password: it is
\* {valid:true, isCreator:true} when a password is set and
\* {valid:true, hasPassword:false} when none is set
C12_CreatorAlwaysValid ==
    [][\A i \in HttpSlots :
          ByCreatorOrLecturer(i) =>
              /\ httpResp'[1].status = 200
              /\ httpResp'[1].body =
                    IF PasswordSet(i) THEN [valid |-> TRUE, isCreator |-> TRUE]
                    ELSE [valid |-> TRUE, hasPassword |-> FALSE]]_vars

\* C12 witness: the lecturer of b1, who is not its creator, validated against a
\* set password and was answered {valid:true, isCreator:true}
C12_Witness ==
    /\ httpResp # None
    /\ httpResp[1].op = "validate" /\ httpResp[1].userId = OtherTeacher
    /\ httpResp[1].status = 200
    /\ httpResp[1].body = [valid |-> TRUE, isCreator |-> TRUE]
    /\ boards["b1"].password = "pw" /\ boards["b1"].lecturerId = OtherTeacher

\* ------------------------------------------------ properties: room codes ----
\* the 32 symbols a room code is made of
RoomCodeAlphabet ==
    {"A", "B", "C", "D", "E", "F", "G", "H", "J", "K", "L", "M", "N", "P", "Q", "R",
     "S", "T", "U", "V", "W", "X", "Y", "Z", "2", "3", "4", "5", "6", "7", "8", "9"}

\* C13: no two stored boards have the same roomCode, whatever the random
\* generator yields, and a board returned by board-create has a roomCode of
\* exactly 9 characters of the alphabet that no other stored board has
C13_RoomCodeUnique ==
    /\ \A a, b \in DOMAIN boards : a # b => boards[a].roomCode # boards[b].roomCode
    /\ (httpResp # None /\ httpResp[1].op = "create" /\ httpResp[1].status = 200) =>
          LET code == httpResp[1].body[1].roomCode
          IN  /\ Len(code) = 9
              /\ \A k \in 1..Len(code) : code[k] \in RoomCodeAlphabet
              /\ Cardinality({b \in DOMAIN boards : boards[b].roomCode = code}) = 1

\* C13 witness: a board-create met ten consecutive collisions and left the loop
\* with a roomCode that a stored board has
C13_Witness ==
    \E i \in HttpSlots :
        /\ httpTasks[i].pc = "createInsert"
        /\ httpTasks[i].attempts = MaxAttempts
        /\ \E b \in DOMAIN boards : boards[b].roomCode = httpTasks[i].roomCode

\* ------------------------------------------------- properties: recording ----
\* C14: in every reachable state each board has at most one recording row with
\* status "recording", also when the existence check and the insert of start
\* requests interleave
C14_OneActiveRecording ==
    \A b \in BoardIds : Cardinality(ActiveRecordings(b)) <= 1

\* ------------------------------------- properties: admin classification ----
\* this step stores the participant record of the join on connection s
StoresJoin(s) == joinTasks[s].pc # "boardState" /\ joinTasks'[s].pc = "boardState"

\* C15: the record a join stores has isAdmin = true if and only if the
\* connection's session user id is non-empty and equals the creator id or the
\* lecturer id stored for the room's board at that time; isAdmin of a stored
\* record changes in no other step
C15_AdminIffCreatorOrLecturer ==
    [][/\ \A s \in SocketIds :
             StoresJoin(s) =>
                 LET roomCode == joinTasks'[s].roomCode
                     auth == sockets[s].auth
                 IN  rooms'[roomCode][joinTasks'[s].pid].isAdmin <=>
                        /\ auth # NULL
                        /\ \E b \in DOMAIN boards :
                              /\ boards[b].roomCode = roomCode
                              /\ auth \in {boards[b].creatorId, boards[b].lecturerId}
       /\ \A roomCode \in DOMAIN rooms \cap DOMAIN rooms' :
             \A pid \in DOMAIN rooms[roomCode] \cap DOMAIN rooms'[roomCode] :
                 rooms'[roomCode][pid].isAdmin # rooms[roomCode][pid].isAdmin =>
                     \E s \in SocketIds : StoresJoin(s) /\ joinTasks'[s].pid = pid]_vars

\* ---------------------------------------- properties: user management ----
\* C16: on every mounted route that creates a user, deletes a user or changes
\* a screen name, the users table changes only in a step of a request whose
\* session user has role admin
C16_UsersChangedByAdminOnly ==
    [][users' # users =>
          \E i \in HttpSlots :
              /\ httpTasks'[i] # httpTasks[i]
              /\ httpTasks[i].userId \in DOMAIN users
              /\ users[httpTasks[i].userId].role = "admin"]_vars

\* ------------------------------------ properties: understanding score ----
\* C17: for a participant with at least one message, whenever the model output
\* holds a parseable JSON object with numeric score s, the persisted and the
\* returned score equal min(100, max(0, s))
C17_ScoreClamped ==
    (/\ httpResp # None
     /\ httpResp[1].op = "score"
     /\ httpResp[1].messages > 0
     /\ httpResp[1].output.kind = "json"
     /\ httpResp[1].output.score # None) =>
        LET s == httpResp[1].output.score[1]
            clamped == IF s < 0 THEN 0 ELSE IF s > 100 THEN 100 ELSE s
        IN  /\ httpResp[1].body.score = clamped
            /\ aiParticipant.score = Some(clamped)

\* C26: the understanding-score request of a participant with messages does
\* not fail because of the model: when the model call failed or its output
\* could not be parsed, the answer is 200 with score 50 and the generic
\* feedback, and the participant is stored with score 50 and status completed
C26_ModelFailureScoresDefault ==
    (/\ httpResp # None
     /\ httpResp[1].op = "score"
     /\ httpResp[1].messages > 0
     /\ httpResp[1].output.kind \in {"failed", "text", "unparseable"}) =>
        /\ httpResp[1].status = 200
        /\ httpResp[1].body = [score |-> DefaultScore,
                               feedback |-> "Thank you for participating in the discussion."]
        /\ aiParticipant = [status |-> "completed", score |-> Some(DefaultScore)]

\* ------------------------------------------ properties: closed sessions ----
\* C18: no step creates or modifies a quiz_responses row of a session whose
\* stored status is closed, whatever the interleaving of the steps of the
\* quiz:response handlers with the sessions' timers
C18_NoResponseAfterClose ==
    [][\A sessionId \in SessionIds :
          quizSessions[sessionId].status = "closed" =>
              getQuizResponses(sessionId)' = getQuizResponses(sessionId)]_vars

\* ---------------------------------------------- properties: quiz timers ----
\* the timer of the session fires in this step
TimerFires(sessionId) ==
    /\ \E t \in quizTimers : t.sessionId = sessionId
    /\ \A t \in quizTimers' : t.sessionId # sessionId

\* the open participants of the room of the session's board
SessionAudience(sessionId) ==
    LET roomCode == boards[quizSessions[sessionId].boardId].roomCode
    IN  IF roomCode \in DOMAIN rooms THEN OpenPids(rooms[roomCode]) ELSE {}

\* every stored session is eventually closed
C19_EventuallyClosed ==
    \A sessionId \in SessionIds \cup NewSessionIds :
        [](sessionId \in DOMAIN quizSessions =>
              <>(/\ sessionId \in DOMAIN quizSessions
                 /\ quizSessions[sessionId].status = "closed"))

\* the step in which a session's timer fires stores status closed and sends
\* quiz:ended to every open participant of the session's room
C19_TimerAnnounces ==
    [][\A sessionId \in SessionIds \cup NewSessionIds :
          TimerFires(sessionId) =>
              /\ quizSessions'[sessionId].status = "closed"
              /\ \A p \in SessionAudience(sessionId) :
                    \E k \in DOMAIN sent' :
                        /\ sent'[k].type = "quiz:ended"
                        /\ sent'[k].userId = sessionId
                        /\ p \in sent'[k].to]_vars

\* C19: every session created by quiz:post is eventually closed by its one-shot
\* timer, and when the timer fires quiz:ended is sent to every open participant
\* of the room, whether or not quiz:close was sent before
C19_TimerClosesAndAnnounces == C19_EventuallyClosed /\ C19_TimerAnnounces

\* --------------------------------------- properties: departed admin ----
\* the session of the room is ended after this step: the board is stored with
\* isEnded = TRUE and sessionState{isEnded: true} went to the open participants
EndedAfterStep(roomCode, room) ==
    /\ getBoardByRoomCode(roomCode) # NULL
    /\ boards'[getBoardByRoomCode(roomCode)].isEnded
    /\ \E k \in DOMAIN sent' :
          sent'[k] = Msg("sessionState", OpenIn(room), NULL, Some(TRUE))

\* C20: the callback of the grace timer of a participant who was admin at
\* disconnect time, fired with no open socket registered for the participant,
\* returns (at once, or after its storage calls) with the room's board stored
\* with isEnded = TRUE and sessionState{isEnded: true} broadcast, whatever the
\* number of participants that remain
C20_AdminExpiryEndsSession ==
    [][/\ \A t \in disconnectTimers :
             (/\ t.wasAdmin
              /\ t \notin disconnectTimers'
              /\ sockets' = sockets
              /\ t.roomCode \in DOMAIN rooms
              /\ t.pid \in DOMAIN rooms[t.roomCode]
              /\ ~IsOpen(rooms[t.roomCode][t.pid].ws)
              /\ \A e \in expiryTasks' : e.id # t.id)
             => EndedAfterStep(t.roomCode, MapDel(rooms[t.roomCode], t.pid))
       /\ \A e \in expiryTasks :
             (e.pc = "updateBoard" /\ \A e2 \in expiryTasks' : e2.id # e.id)
             => EndedAfterStep(e.roomCode, TaskRoom(e))]_vars

\* ------------------------------------------------ properties: timers ----
\* C21: every (room, participant) key has at most one live grace timer, also
\* when several connections that joined with the same participant id close one
\* after another (a key's debounce timer is the one entry of
\* pendingBoardUpdates, a map, and so never more than one)
C21_OneTimerPerKey ==
    \A key \in Keys :
        Cardinality({t \in disconnectTimers : Key(t.roomCode, t.pid) = key}) <= 1

\* ------------------------------------- properties: debounced updates ----
\* this step starts exactly one save, the flush of the key with these lines
FlushStarted(key, lines) ==
    \E i \in SaveSlots :
        /\ saveTasks[i].pc = "free"
        /\ saveTasks'[i] = [pc |-> "getBoard", kind |-> "flush", ref |-> key[1],
                            userId |-> key[2], lines |-> lines, existing |-> 0]
        /\ \A j \in SaveSlots \ {i} : saveTasks'[j] = saveTasks[j]

\* a boardUpdate message starts no save: it replaces the buffer of its key
C22_MessageBuffers ==
    \A k \in DOMAIN sent' :
        sent'[k].type = "boardUpdate" =>
            /\ saveTasks' = saveTasks
            /\ \E r \in RoomCodes :
                  pendingBoardUpdates' =
                      [pendingBoardUpdates EXCEPT ![Key(r, sent'[k].userId)] = sent'[k].flag]

\* the timer that fires after the pause starts one save, carrying the buffer
C22_PauseFlushes ==
    \A key \in Keys :
        (~burst[key].over /\ burst'[key].over) =>
            /\ pendingBoardUpdates[key] # None
            /\ pendingBoardUpdates'[key] = None
            /\ FlushStarted(key, pendingBoardUpdates[key][1])

\* a started flush writes storage once, in its last step, with its lines
C22_FlushWritesOnce ==
    boardData' # boardData =>
        \E i \in SaveSlots :
            /\ saveTasks[i].pc = "write"
            /\ saveTasks'[i].pc = "done"
            /\ \E r \in boardData' :
                  /\ r.boardId = saveTasks[i].ref
                  /\ r.userId = saveTasks[i].userId
                  /\ r.linesData = saveTasks[i].lines
                  /\ boardData' \ {r} \subseteq boardData

C22_Steps == [][C22_MessageBuffers /\ C22_PauseFlushes /\ C22_FlushWritesOnce]_vars

\* C22 as stated: for every key, a burst of boardUpdate messages, each arriving
\* while the previous one's timer is pending, followed by a pause, results in
\* exactly one storage write for the key, carrying the lines of the last message
C22_BurstOneWrite ==
    /\ [](\A key \in Keys : burst[key].over => burst[key].w = 1)
    /\ C22_Steps

\* C22 amended: the same, for a burst during which no connection registered
\* under the key closes (such a close flushes the buffer at once, and the
\* rest of the burst is written separately)
C22_UnsplitBurstOneWrite ==
    /\ [](\A key \in Keys :
             (burst[key].over /\ ~burst[key].split) => burst[key].w = 1)
    /\ C22_Steps

\* C22 witness: a burst of two or more messages was flushed once by its timer
\* and the write has reached storage
C22_Witness ==
    \E key \in Keys :
        /\ burst[key].over
        /\ ~burst[key].split
        /\ burst[key].n = 2
        /\ burst[key].w = 1
        /\ \E b \in BoardIds : bdLastSave[<<b, key[2]>>] # None

\* ---------------------------------------- properties: transcription ----
\* C24: when POST /api/audio/stop by the recording's lecturer has succeeded
\* although its transcription failed, the audio is stored, a transcript row
\* holds the failure placeholder, and the recording's status is completed
C24_FailedTranscriptionStaysCompleted ==
    (/\ httpResp # None
     /\ httpResp[1].op = "stop"
     /\ httpResp[1].status = 200
     /\ httpResp[1].body[1].transcriptText = TranscriptionFailed) =>
        /\ [recordingId |-> httpResp[1].body[1].recordingId,
            transcriptText |-> TranscriptionFailed] \in transcripts
        /\ \A r \in recordings :
              r.id = httpResp[1].body[1].recordingId =>
                  r.audioData = AudioData /\ r.status = "completed"

\* ------------------------------------------- properties: focus state ----
\* C27: the participant a room's focus state names as focusedUserId is in the
\* room's participant map; no focus state naming a participant remains for a
\* room code that the expiry of the last participant removed from the registry
C27_FocusedIsRegistered ==
    \A roomCode \in DOMAIN roomFocusState :
        roomFocusState[roomCode].focusedUserId # NULL =>
            /\ roomCode \in DOMAIN rooms
            /\ roomFocusState[roomCode].focusedUserId \in DOMAIN rooms[roomCode]

\* ------------------------------------------ properties: room registry ----
\* C28: a step removes a room code from the registry only when the map
\* registered under it holds nobody but the participant whose grace timer
\* fires in that step; a callback resumed from storage removes it only when
\* that map is empty
C28_DeletesEmptyRoomOnly ==
    [][\A roomCode \in DOMAIN rooms :
          roomCode \notin DOMAIN rooms' =>
              \A p \in DOMAIN rooms[roomCode] :
                  \E t \in disconnectTimers \ disconnectTimers' :
                      t.roomCode = roomCode /\ t.pid = p]_vars

\* the callback e of an expired admin returns in this step, having stored
\* isEnded = TRUE and broadcast sessionState
ExpiryEnds(e) ==
    /\ e \in expiryTasks
    /\ e.pc = "updateBoard"
    /\ \A e2 \in expiryTasks' : e2.id # e.id \/ e2.pid # e.pid

\* C30: the expiry callback of admin participant P does not mark the room ended
\* while P has an open connection registered in the room, also when P rejoined
\* while the callback was suspended on storage
C30_NoEndWhileAdminPresent ==
    [][\A e \in expiryTasks :
          ExpiryEnds(e) =>
              ~(/\ e.roomCode \in DOMAIN rooms
                /\ e.pid \in DOMAIN rooms[e.roomCode]
                /\ IsOpen(rooms[e.roomCode][e.pid].ws))]_vars

\* ------------------------------------------ properties: admin actions ----
\* the creator and lecturer ids stored for the board of a room
RoomAdminIds(roomCode) ==
    LET b == getBoardByRoomCode(roomCode)
    IN  IF b = NULL THEN {} ELSE {boards[b].creatorId, boards[b].lecturerId} \ {NULL}

\* this step handles a focus message: no join is in progress in it and the
\* focus command is broadcast
FocusHandled ==
    /\ joinTasks' = joinTasks
    /\ sockets' = sockets
    /\ sent' # <<>>
    /\ sent'[Len(sent')].type = "focus"

\* C25: the admin-only action focus has an effect only when it is sent on a
\* connection whose own session user id is the creator or lecturer id of the
\* room's board, whatever participant ids the connections supplied when they
\* joined: a step that handles a focus message finds such a connection open
\* in a room
C25_AdminActionFromAdminConnection ==
    [][FocusHandled =>
          \E s \in SocketIds :
              /\ IsOpen(s)
              /\ sockets[s].currentRoomCode # NULL
              /\ sockets[s].auth # NULL
              /\ sockets[s].auth \in RoomAdminIds(sockets[s].currentRoomCode)]_vars

\* ------------------------------------------ properties: lost updates ----
\* C23: no buffered drawing update is lost: the buffer of a key leaves
\* pendingBoardUpdates only in a step that starts the flush carrying its lines
\* (the close of the participant's connection, the timer) or replaces it by a
\* newer message; a shutdown of the server does not drop it
C23_NoUpdateLost ==
    [][\A key \in Keys :
          (pendingBoardUpdates[key] # None /\ pendingBoardUpdates'[key] = None) =>
              FlushStarted(key, pendingBoardUpdates[key][1])]_vars

\* ------------------------------------------ properties: sub-canvases ----
\* C29: a boardUpdate message sent by a participant who is not admin names the
\* sender's own participant id as userId
C29_OwnCanvasOnly ==
    lastUpdate # None =>
        (~lastUpdate[1].isAdmin => lastUpdate[1].userId = lastUpdate[1].from)

====
